---- MODULE Spec2Model ----
(***************************************************************************)
(* Fleet provisioning of an edge device (edge-provision.py): the           *)
(* orchestrator provision_device, the two request/reply exchanges of        *)
(* FleetProvisioner over MQTT, the client's network-loop thread that runs   *)
(* the callbacks, and the broker on the other side of the connection.       *)
(***************************************************************************)
EXTENDS Integers, Sequences, FiniteSets, TLC

\* ------------------------------------------------------------- bounds
\* Invocations of the provisioning process that a behaviour may contain.
MaxRuns == 2
\* Messages the broker may send in answer to one published request.
MaxReplies == 2
\* Registry calls of one guard invocation that may fail for no reason of the
\* registry's state (throttling, an internal error, a missing permission).
MaxFaults == 2

\* ---------------------------------------------------------- exchanges
\* The two methods of FleetProvisioner that conduct an exchange.
CERT == "create_certificate_from_csr"
REG == "register_thing"
Exchanges == {CERT, REG}
NoEx == "none"
\* The main thread, as the writer of a provisioner field.
Main == "main"

\* ---------------------------------------------------- values, payloads
None == "None"

\* The two reply topics an exchange subscribes to; "/accepted" in topic and
\* "/rejected" in topic (lines 118, 120) read the suffix.
ACCEPTED == "/accepted"
REJECTED == "/rejected"
Topics == {ACCEPTED, REJECTED}

\* Raw message bodies, one per way the code can treat a body.
BAD_JSON == "not-json"
JSON_LIST == "[]"
JSON_EMPTY == "{}"
CERT_A == "{certificatePem,certificateId:cert-1,certificateOwnershipToken:tok-1}"
CERT_B == "{certificatePem,certificateId:cert-2,certificateOwnershipToken:tok-2}"
THING_REQ == "{thingName:edge-ai-ABC123}"
THING_OTHER == "{thingName:edge-ai-canonical}"
ERR_TEXT == "{errorMessage:denied}"
ERR_EMPTY == "{errorMessage:}"

\* The replies a broker may send to an exchange, one for every path a
\* message can take through _on_message and through the reading of the result:
\* on the accepted topic an undecodable body, a body without the fields read
\* later, and two bodies with them; on the rejected topic an undecodable body,
\* a non-dict, a dict without errorMessage, and a dict with a non-empty and
\* with an empty errorMessage.
Msg(topic, p) == [topic |-> topic, payload |-> p]

Replies(ex) ==
    {Msg(ACCEPTED, p) : p \in {BAD_JSON, JSON_EMPTY} \cup
                              (IF ex = CERT THEN {CERT_A, CERT_B} ELSE {THING_REQ, THING_OTHER})}
    \cup {Msg(REJECTED, p) : p \in {BAD_JSON, JSON_LIST, JSON_EMPTY, ERR_TEXT, ERR_EMPTY}}

\* json.loads(msg.payload.decode()) succeeds.
Decodable(p) == p # BAD_JSON
\* The decoded value is a dict (has .get and string keys).
IsDict(p) == p \notin {BAD_JSON, JSON_LIST, None}
\* cert_response["certificatePem"], ["certificateId"], ["certificateOwnershipToken"].
HasCertFields(v) == v \in {CERT_A, CERT_B}
CertId(v) == IF v = CERT_A THEN "cert-1" ELSE "cert-2"
OwnershipToken(v) == IF v = CERT_A THEN "tok-1" ELSE "tok-2"
\* thing_response["thingName"].
HasThingName(v) == v \in {THING_REQ, THING_OTHER}
ThingNameOf(v) == IF v = THING_REQ THEN "edge-ai-ABC123" ELSE "edge-ai-canonical"
\* payload.get("errorMessage", str(payload)) on a dict.
ErrorMessageOf(p) ==
    IF p = ERR_TEXT THEN "denied"
    ELSE IF p = ERR_EMPTY THEN ""
    ELSE "str(payload)"
\* Python truthiness of self.error in "if self.error:".
Truthy(e) == e \notin {None, ""}

\* thing_name = f"edge-ai-{serial}" for the device's serial.
RequestedName == "edge-ai-ABC123"

\* -------------------------------------------------------------- state
VARIABLES
    pc,             \* position of the main thread; "idle" when no process runs
    curEx,          \* the exchange the main thread is inside, or NoEx
    exitCode,       \* exit status of the last process: "none", "0", "1", "killed"
    runs,           \* invocations of the process so far
    claimConfig,    \* /etc/edge-ai/claim/config.json: "absent" or the kind of template name it holds
    configFile,     \* /data/config/aws-iot/config.json
    keyFile,        \* private.key / device.csr: 0 absent, k the k-th key generated
    certFile,       \* device.crt: None or the certificate id written
    response,       \* FleetProvisioner.response
    error,          \* FleetProvisioner.error
    response_event, \* FleetProvisioner.response_event is set
    setBy,          \* history: who last wrote each field: an exchange's callback, or Main
    conn,           \* per exchange, its MQTT client: socket, loop thread, CONNACK
    net,            \* per exchange, the broker's side of its connection
    hist,           \* history of the exchange in progress, or of the last one finished
    run,            \* history of the current run
    pending,        \* result on its way through the finally block
    registry,       \* the cloud registry: identities, certificates, attachments
    calls,          \* history: the registry calls made by the guard or the cleaner
    guard,          \* the pre-provisioning hook: position and locals of handler
    cleaner,        \* the cleanup command: position and locals of main
    provision       \* IoTProvisioner.provision: position and locals of the call

\* The state on the device, and the state in the cloud.
device == <<pc, curEx, exitCode, runs, claimConfig, configFile, keyFile, certFile,
            response, error, response_event, setBy, conn, net, hist, run, pending>>
cloud == <<registry, calls, guard, cleaner, provision>>

vars == <<pc, curEx, exitCode, runs, claimConfig, configFile, keyFile, certFile,
          response, error, response_event, setBy, conn, net, hist, run, pending,
          registry, calls, guard, cleaner, provision>>

files == <<claimConfig, configFile, keyFile, certFile>>
provisioner == <<response, error, response_event, setBy>>

NoFile == [content |-> "absent", mode |-> "none", thing_name |-> None]
NoClient == [sock |-> "none", loop |-> FALSE, connack |-> "none"]
NoRequest == [kind |-> "none", csr |-> 0, token |-> None, thingName |-> None]
NoNet == [out |-> <<>>, subs |-> {}, inbox |-> <<>>, replies |-> 0, request |-> NoRequest]
NoHist == [ex |-> NoEx, delivered |-> <<>>, outcome |-> "none", retval |-> None,
           raised |-> None, subscribed |-> FALSE, settled |-> FALSE, published |-> FALSE,
           request |-> NoRequest, connFailed |-> FALSE, dropped |-> FALSE,
           unsubscribedReply |-> FALSE]
NoRun == [startedWith |-> "absent", shortCircuit |-> FALSE, connects |-> 0,
          subscribes |-> 0, publishes |-> 0, keyGenerated |-> FALSE,
          cert_response |-> None, ownership_token |-> None,
          thing_response |-> None, registered_thing |-> None, wrote |-> FALSE,
          returnedAccepted |-> {}, csr |-> 0, earlierCsrs |-> {}]
NoPending == [kind |-> "none", value |-> None]

\* ------------------------------------------------------- the registry
\* Identities (things), certificates and policies the registry may hold.
Things == {"edge-ai-ABC123", "edge-ai-XYZ789"}
Certs == {"cert-1", "cert-2"}
Policies == {"policy-1", "policy-2"}
ACTIVE == "ACTIVE"
INACTIVE == "INACTIVE"
Absent == "absent"

\* A provisioning attempt as the registry sees it: the certificate issued for
\* its CSR, and whether its registration was carried out ("registered"), was
\* rejected or never arrived ("failed"), or is still to come ("issued").
NoAttempt == [state |-> "none", cert |-> None, thing |-> None]

\* things: the identities that exist; certs: each certificate's status, or
\* Absent; principals: the certificates attached to each identity; policies:
\* the policies attached to each certificate; attempt: the provisioning
\* attempt of a device, if one was made.
NoRegistry == [things |-> {}, certs |-> [c \in Certs |-> Absent],
               principals |-> [t \in Things |-> {}],
               policies |-> [c \in Certs |-> {}],
               attempt |-> NoAttempt]

\* list_principal_things: the identities a certificate is attached to.
AttachedThings(r, c) == {t \in Things : c \in r.principals[t]}

\* The orders in which a list call may return the members of a set.
Orderings(S) ==
    {q \in [1..Cardinality(S) -> S] : \A i, j \in 1..Cardinality(S) : i # j => q[i] # q[j]}

\* The effect of each mutating call that the registry accepts.
Detached(r, t, c) == [r EXCEPT !.principals[t] = @ \ {c}]
PolicyDetached(r, p, c) == [r EXCEPT !.policies[c] = @ \ {p}]
StatusSet(r, c, status) == [r EXCEPT !.certs[c] = status]
CertificateDeleted(r, c) == [r EXCEPT !.certs[c] = Absent, !.policies[c] = {}]
ThingDeleted(r, t) == [r EXCEPT !.things = @ \ {t}]

\* What the registry requires of a call: a certificate is updated only if it
\* exists; it is deleted only if it is inactive and attached to no identity,
\* and, unless the deletion is forced, to no policy; an identity is deleted
\* only if no certificate is attached to it (deleting an absent one succeeds).
CanDetach(r, t) == t \in r.things
CanUpdateCertificate(r, c) == r.certs[c] # Absent
CanDeleteCertificate(r, c, force) ==
    /\ r.certs[c] = INACTIVE
    /\ AttachedThings(r, c) = {}
    /\ force \/ r.policies[c] = {}
CanDeleteThing(r, t) == r.principals[t] = {}

\* A call made: its operation, its arguments and its result: "ok", "error"
\* (a ClientError) or "not_found" (a ClientError with ResourceNotFoundException).
Call(op, t, c, p, res) == [op |-> op, thing |-> t, cert |-> c, policy |-> p, result |-> res]

MutatingOps == {"detach_thing_principal", "detach_policy", "update_certificate",
                "delete_certificate", "delete_thing"}

\* The calls that failed so far, and whether one more may fail without cause.
Failed(log) == {i \in 1..Len(log) : log[i].result = "error"}
MayFail == Cardinality(Failed(calls)) < MaxFaults

\* The outcomes of a call: it succeeds only if the registry allows it, and it
\* fails if the registry forbids it or for a cause of its own.
Outcomes(allowed) ==
    {res \in {"ok", "error"} : IF res = "ok" THEN allowed ELSE (~allowed \/ MayFail)}

\* --------------------------------------------- pre_provisioning_hook.py
NoGuard == [pc |-> "idle", thing_name |-> None, principals |-> <<>>,
            policies |-> <<>>, result |-> "none", entry |-> NoRegistry]

\* ------------------------------------------------------------ cleanup.py
\* What main echoed: nothing yet, or the three lists of findings.
NoReport == [echoed |-> FALSE, things |-> <<>>, orphaned |-> <<>>, inactive |-> <<>>]

\* main's options, its three findings, what it echoed, how it ended, and the
\* lists its loops still have to go through.
NoCleaner == [pc |-> "idle", dry_run |-> FALSE, force |-> FALSE,
              things |-> <<>>, certs |-> <<>>,
              orphaned_things |-> <<>>, orphaned_certs |-> <<>>, inactive_certs |-> <<>>,
              reported |-> NoReport, outcome |-> "none",
              principals |-> <<>>, cert_things |-> <<>>, policies |-> <<>>,
              entry |-> NoRegistry]

\* ------------------------------------------------- src/iot/src/provision.py
\* The policy that provision attaches to a device's certificate.
POLICY_NAME == "policy-1"

\* IoTProvisioner.provision: the name it was called with, what cleanup_thing
\* still has to go through, the certificate it created, how the call ended,
\* the calls made so far, and the registry and the length of the call log
\* at the beginning of each call.
NoProvision == [pc |-> "idle", thing_name |-> None, principals |-> <<>>,
                policies |-> <<>>, cert |-> None, outcome |-> "none",
                count |-> 0, entries |-> <<>>, start |-> 0]

\* No guard, no cleaner and no provisioner runs, and the registry plays no part.
CloudIdle ==
    /\ registry = NoRegistry
    /\ calls = <<>>
    /\ guard = NoGuard
    /\ cleaner = NoCleaner
    /\ provision = NoProvision

Init ==
    /\ CloudIdle
    /\ pc = "idle"
    /\ curEx = NoEx
    /\ exitCode = "none"
    /\ runs = 0
    /\ claimConfig \in {"absent", "plain", "bad-filter", "wildcard"}
    /\ configFile = NoFile
    /\ keyFile = 0
    /\ certFile = None
    /\ response = None
    /\ error = None
    /\ response_event = FALSE
    /\ setBy = [response |-> Main, error |-> Main, event |-> Main]
    /\ conn = [ex \in Exchanges |-> NoClient]
    /\ net = [ex \in Exchanges |-> NoNet]
    /\ hist = NoHist
    /\ run = NoRun
    /\ pending = NoPending

\* ------------------------------------------------- the process, main()
\* The process ends: its daemon loop threads die and its sockets are closed.
ProcessEnd(code) ==
    /\ pc' = "idle"
    /\ curEx' = NoEx
    /\ exitCode' = code
    /\ conn' = [ex \in Exchanges |->
                 [conn[ex] EXCEPT !.loop = FALSE,
                                  !.sock = IF @ = "none" THEN "none" ELSE "closed"]]
    /\ pending' = NoPending

\* main() is invoked: a new process with no provisioner and no client yet.
StartRun ==
    /\ pc = "idle"
    /\ runs < MaxRuns
    /\ pc' = "check_config"
    /\ runs' = runs + 1
    /\ exitCode' = "none"
    /\ curEx' = NoEx
    /\ response' = None
    /\ error' = None
    /\ response_event' = FALSE
    /\ setBy' = [response |-> Main, error |-> Main, event |-> Main]
    /\ conn' = [ex \in Exchanges |-> NoClient]
    /\ net' = [ex \in Exchanges |-> NoNet]
    /\ hist' = NoHist
    /\ run' = [NoRun EXCEPT !.startedWith = configFile.content,
                             !.earlierCsrs = run.earlierCsrs \cup
                                             (IF run.csr = 0 THEN {} ELSE {run.csr})]
    /\ pending' = NoPending
    /\ UNCHANGED files
    /\ UNCHANGED cloud

\* Faulty variant: the check for an existing config is missing.
AlreadyProvisioned_Never == FALSE

\* "if config_path.exists(): return True", then sys.exit(0).
AlreadyProvisioned == configFile.content # "absent"

\* Faulty variant: a run goes on to provision although a config exists.
CheckProvisioned_Always ==
    /\ pc = "check_config"
    /\ pc' = "load_claim"
    /\ UNCHANGED <<curEx, exitCode, conn, pending, run>>
    /\ UNCHANGED <<runs, files, provisioner, net, hist>>
    /\ UNCHANGED cloud

CheckProvisioned ==
    /\ pc = "check_config"
    /\ IF AlreadyProvisioned
       THEN /\ ProcessEnd("0")
            /\ run' = [run EXCEPT !.shortCircuit = TRUE]
       ELSE /\ pc' = "load_claim"
            /\ UNCHANGED <<curEx, exitCode, conn, pending, run>>
    /\ UNCHANGED <<runs, files, provisioner, net, hist>>
    /\ UNCHANGED cloud

\* Faulty variant: the check for the claim config is missing.
LoadClaimConfig_NoCheck ==
    /\ pc = "load_claim"
    /\ pc' = "prepare"
    /\ UNCHANGED <<curEx, exitCode, conn, pending>>
    /\ UNCHANGED <<runs, files, provisioner, net, hist, run>>
    /\ UNCHANGED cloud

\* "if not claim_config_path.exists(): return False", then sys.exit(1).
LoadClaimConfig ==
    /\ pc = "load_claim"
    /\ IF claimConfig = "absent"
       THEN ProcessEnd("1")
       ELSE /\ pc' = "prepare"
            /\ UNCHANGED <<curEx, exitCode, conn, pending>>
    /\ UNCHANGED <<runs, files, provisioner, net, hist, run>>
    /\ UNCHANGED cloud

\* IOT_DIR.mkdir and download_root_ca(): curl runs with check=True and may fail.
PrepareDirs ==
    /\ pc = "prepare"
    /\ \E ok \in BOOLEAN : pc' = IF ok THEN "keygen" ELSE "except"
    /\ UNCHANGED <<curEx, exitCode, runs, files, provisioner, conn, net, hist, run, pending>>
    /\ UNCHANGED cloud

\* Faulty variant: a key already on disk is kept and its CSR sent again.
GenerateKey_ReuseKey ==
    /\ pc = "keygen"
    /\ keyFile' = IF keyFile = 0 THEN 1 ELSE keyFile
    /\ response' = None
    /\ error' = None
    /\ response_event' = FALSE
    /\ setBy' = [response |-> Main, error |-> Main, event |-> Main]
    /\ run' = [run EXCEPT !.keyGenerated = TRUE]
    /\ pc' = "ex_init"
    /\ curEx' = CERT
    /\ UNCHANGED <<exitCode, runs, claimConfig, configFile, certFile, conn, net, hist, pending>>
    /\ UNCHANGED cloud

\* generate_key_and_csr overwrites private.key and device.csr; then the
\* FleetProvisioner is constructed (__init__).
GenerateKey ==
    /\ pc = "keygen"
    /\ keyFile' = keyFile + 1
    /\ response' = None
    /\ error' = None
    /\ response_event' = FALSE
    /\ setBy' = [response |-> Main, error |-> Main, event |-> Main]
    /\ run' = [run EXCEPT !.keyGenerated = TRUE]
    /\ pc' = "ex_init"
    /\ curEx' = CERT
    /\ UNCHANGED <<exitCode, runs, claimConfig, configFile, certFile, conn, net, hist, pending>>
    /\ UNCHANGED cloud

\* Faulty variant: an exception ends the process with exit code 0.
MainExcept_ExitZero ==
    /\ pc = "except"
    /\ ProcessEnd("0")
    /\ UNCHANGED <<runs, files, provisioner, net, hist, run>>
    /\ UNCHANGED cloud

\* "except Exception as e: err(str(e)); sys.exit(1)".
MainExcept ==
    /\ pc = "except"
    /\ ProcessEnd("1")
    /\ UNCHANGED <<runs, files, provisioner, net, hist, run>>
    /\ UNCHANGED cloud

\* ------------------------------------- an exchange, on the main thread
\* create_certificate_from_csr (ex = CERT) and register_thing (ex = REG)
\* run the same steps; only the topics and the request differ.

\* A packet handed to the client: queued for the broker while the socket is
\* up, dropped with an ignored return code otherwise.
Send(ex, packets) ==
    IF conn[ex].sock = "open"
    THEN [net EXCEPT ![ex].out = @ \o packets]
    ELSE net

SubPacket(topic) == [type |-> "SUBSCRIBE", topic |-> topic, request |-> NoRequest]
PubPacket(req) == [type |-> "PUBLISH", topic |-> None, request |-> req]

\* Faulty variant: the registration request carries a fixed token, not the one returned.
Request_FixedToken(ex) ==
    IF ex = CERT
    THEN [kind |-> "csr", csr |-> keyFile, token |-> None, thingName |-> None]
    ELSE [kind |-> "register", csr |-> 0, token |-> "tok-1",
          thingName |-> RequestedName]

\* The request body: the CSR just generated, or the ownership token with the
\* registration parameters.
Request(ex) ==
    IF ex = CERT
    THEN [kind |-> "csr", csr |-> keyFile, token |-> None, thingName |-> None]
    ELSE [kind |-> "register", csr |-> 0, token |-> run.ownership_token,
          thingName |-> RequestedName]

\* Faulty variant: an exception leaves the method without the finally block.
Leave_NoFinally(kind, value) ==
    /\ pending' = [kind |-> kind, value |-> value]
    /\ pc' = IF kind = "raise" THEN "except" ELSE "loop_stop"

\* The result leaves the try block: the finally block runs first.
Leave(kind, value) ==
    /\ pending' = [kind |-> kind, value |-> value]
    /\ pc' = "loop_stop"

\* Faulty variant: the method does not reset the provisioner's fields.
ExInit_NoReset ==
    /\ pc = "ex_init"
    /\ conn' = [conn EXCEPT ![curEx] = NoClient]
    /\ hist' = [NoHist EXCEPT !.ex = curEx]
    /\ pc' = "ex_connect"
    /\ UNCHANGED <<curEx, exitCode, runs, files, provisioner, net, run, pending>>
    /\ UNCHANGED cloud

\* "client = self._create_client(); self.response = None; self.error = None;
\*  self.response_event.clear()".
ExInit ==
    /\ pc = "ex_init"
    /\ conn' = [conn EXCEPT ![curEx] = NoClient]
    /\ response' = None
    /\ error' = None
    /\ response_event' = FALSE
    /\ setBy' = [response |-> Main, error |-> Main, event |-> Main]
    /\ hist' = [NoHist EXCEPT !.ex = curEx]
    /\ pc' = "ex_connect"
    /\ UNCHANGED <<curEx, exitCode, runs, files, net, run, pending>>
    /\ UNCHANGED cloud

\* "client.connect(self.endpoint, 8883, keepalive=60); client.loop_start()",
\* before the try block: connect() raising reaches main() with no finally.
ExConnect ==
    /\ pc = "ex_connect"
    /\ run' = [run EXCEPT !.connects = @ + 1]
    /\ \E ok \in BOOLEAN :
         IF ok
         THEN /\ conn' = [conn EXCEPT ![curEx] =
                            [sock |-> "open", loop |-> TRUE, connack |-> "pending"]]
              /\ net' = [net EXCEPT ![curEx] = NoNet]
              /\ pc' = "ex_sleep"
              /\ UNCHANGED <<curEx, hist>>
         ELSE /\ hist' = [hist EXCEPT !.outcome = "raised", !.raised = "connect"]
              /\ pc' = "except"
              /\ curEx' = NoEx
              /\ UNCHANGED <<conn, net>>
    /\ UNCHANGED <<exitCode, runs, files, provisioner, pending>>
    /\ UNCHANGED cloud

\* "time.sleep(1)".
ExSleep ==
    /\ pc = "ex_sleep"
    /\ pc' = "ex_subscribe"
    /\ UNCHANGED <<curEx, exitCode, runs, files, provisioner, conn, net, hist, run, pending>>
    /\ UNCHANGED cloud

\* Faulty variant: the request is published before the subscriptions are made.
ExSubscribe_AfterPublish ==
    /\ pc = "ex_subscribe"
    /\ net' = Send(curEx, <<PubPacket(Request(curEx)), SubPacket(ACCEPTED),
                            SubPacket(REJECTED)>>)
    /\ hist' = [hist EXCEPT !.subscribed = TRUE, !.published = TRUE,
                            !.request = Request(curEx)]
    /\ run' = [run EXCEPT !.subscribes = @ + 1, !.publishes = @ + 1,
                           !.csr = IF curEx = CERT THEN keyFile ELSE @]
    /\ pc' = "ex_wait"
    /\ UNCHANGED <<curEx, exitCode, runs, files, provisioner, conn, pending>>
    /\ UNCHANGED cloud

\* client.subscribe(.../accepted); client.subscribe(.../rejected). The
\* template name is part of the registration topics; one that makes an
\* invalid filter raises ValueError.
ExSubscribe ==
    /\ pc = "ex_subscribe"
    /\ IF curEx = REG /\ claimConfig = "bad-filter"
       THEN /\ Leave("raise", "ValueError")
            /\ UNCHANGED <<net, hist, run>>
       ELSE /\ net' = Send(curEx, <<SubPacket(ACCEPTED), SubPacket(REJECTED)>>)
            /\ hist' = [hist EXCEPT !.subscribed = TRUE]
            /\ run' = [run EXCEPT !.subscribes = @ + 1]
            /\ pc' = "ex_settle"
            /\ UNCHANGED pending
    /\ UNCHANGED <<curEx, exitCode, runs, files, provisioner, conn>>
    /\ UNCHANGED cloud

\* "time.sleep(0.5)": the fixed delay given to the broker's acknowledgements.
ExSettle ==
    /\ pc = "ex_settle"
    /\ hist' = [hist EXCEPT !.settled = TRUE]
    /\ pc' = "ex_publish"
    /\ UNCHANGED <<curEx, exitCode, runs, files, provisioner, conn, net, run, pending>>
    /\ UNCHANGED cloud

\* "client.publish(topic, payload)". A template name with a wildcard makes
\* publish raise ValueError.
ExPublish ==
    /\ pc = "ex_publish"
    /\ IF curEx = REG /\ claimConfig = "wildcard"
       THEN /\ Leave("raise", "ValueError")
            /\ UNCHANGED <<net, hist, run>>
       ELSE /\ net' = Send(curEx, <<PubPacket(Request(curEx))>>)
            /\ hist' = [hist EXCEPT !.published = TRUE, !.request = Request(curEx)]
            /\ run' = [run EXCEPT !.publishes = @ + 1,
                                   !.csr = IF curEx = CERT THEN keyFile ELSE @]
            /\ pc' = "ex_wait"
            /\ UNCHANGED pending
    /\ UNCHANGED <<curEx, exitCode, runs, files, provisioner, conn>>
    /\ UNCHANGED cloud

\* "self.response_event.wait(timeout=30)" returns True: the event is set.
ExWaitSet ==
    /\ pc = "ex_wait"
    /\ response_event
    /\ pc' = "ex_check"
    /\ UNCHANGED <<curEx, exitCode, runs, files, provisioner, conn, net, hist, run, pending>>
    /\ UNCHANGED cloud

\* Faulty variant: the result of the wait is not looked at.
ExWaitTimeout_Ignored ==
    /\ pc = "ex_wait"
    /\ ~response_event
    /\ pc' = "ex_check"
    /\ UNCHANGED <<curEx, exitCode, runs, files, provisioner, conn, net, hist, run, pending>>
    /\ UNCHANGED cloud

\* The wait returns False after 30 s: "raise TimeoutError(...)".
ExWaitTimeout ==
    /\ pc = "ex_wait"
    /\ ~response_event
    /\ Leave("raise", "TimeoutError")
    /\ UNCHANGED <<curEx, exitCode, runs, files, provisioner, conn, net, hist, run>>
    /\ UNCHANGED cloud

\* "if self.error: raise RuntimeError(f'... error: {self.error}')".
ExCheckError ==
    /\ pc = "ex_check"
    /\ IF Truthy(error)
       THEN Leave("raise", error)
       ELSE pc' = "ex_return" /\ UNCHANGED pending
    /\ UNCHANGED <<curEx, exitCode, runs, files, provisioner, conn, net, hist, run>>
    /\ UNCHANGED cloud

\* "return self.response".
ExReturn ==
    /\ pc = "ex_return"
    /\ Leave("return", response)
    /\ UNCHANGED <<curEx, exitCode, runs, files, provisioner, conn, net, hist, run>>
    /\ UNCHANGED cloud

\* finally: "client.loop_stop()" joins the loop thread: no callback after it.
ExLoopStop ==
    /\ pc = "loop_stop"
    /\ conn' = [conn EXCEPT ![curEx].loop = FALSE]
    /\ pc' = "disconnect"
    /\ UNCHANGED <<curEx, exitCode, runs, files, provisioner, net, hist, run, pending>>
    /\ UNCHANGED cloud

\* History: {ex} when the value an exchange returns is the body of a message
\* delivered to it on the accepted topic, {} otherwise.
AcceptedBy(ex, value) ==
    IF \E i \in 1..Len(hist.delivered) :
          /\ hist.delivered[i].ex = ex
          /\ hist.delivered[i].topic = ACCEPTED
          /\ hist.delivered[i].payload = value
    THEN {ex} ELSE {}

\* finally: "client.disconnect()"; then the result reaches provision_device:
\* the returned value, or the exception on its way to main().
ExDisconnect ==
    /\ pc = "disconnect"
    /\ conn' = [conn EXCEPT ![curEx] = [sock |-> "closed", loop |-> @.loop, connack |-> "none"]]
    /\ net' = [net EXCEPT ![curEx] = NoNet]
    /\ IF pending.kind = "return"
       THEN /\ hist' = [hist EXCEPT !.outcome = "returned", !.retval = pending.value]
            /\ run' = IF curEx = CERT
                      THEN [run EXCEPT !.cert_response = pending.value,
                                       !.returnedAccepted = @ \cup AcceptedBy(curEx, pending.value)]
                      ELSE [run EXCEPT !.thing_response = pending.value,
                                       !.returnedAccepted = @ \cup AcceptedBy(curEx, pending.value)]
            /\ pc' = IF curEx = CERT THEN "save_cert" ELSE "read_thing"
       ELSE /\ hist' = [hist EXCEPT !.outcome = "raised", !.raised = pending.value]
            /\ run' = run
            /\ pc' = "except"
    /\ curEx' = NoEx
    /\ pending' = NoPending
    /\ UNCHANGED <<exitCode, runs, files, provisioner>>
    /\ UNCHANGED cloud

\* ------------------------------------ provision_device, after an exchange
\* cert_response["certificatePem"], ["certificateId"], ["certificateOwnershipToken"]
\* (KeyError or TypeError when absent), then device.crt is written.
SaveCertificate ==
    /\ pc = "save_cert"
    /\ IF HasCertFields(run.cert_response)
       THEN /\ certFile' = CertId(run.cert_response)
            /\ run' = [run EXCEPT !.ownership_token = OwnershipToken(run.cert_response)]
            /\ pc' = "ex_init"
            /\ curEx' = REG
       ELSE /\ pc' = "except"
            /\ UNCHANGED <<certFile, run, curEx>>
    /\ UNCHANGED <<exitCode, runs, claimConfig, configFile, keyFile, provisioner,
                   conn, net, hist, pending>>
    /\ UNCHANGED cloud

\* Faulty variant: a reply without thingName falls back to the requested name.
ReadThingName_DefaultName ==
    /\ pc = "read_thing"
    /\ run' = [run EXCEPT !.registered_thing =
                  IF HasThingName(run.thing_response)
                  THEN ThingNameOf(run.thing_response) ELSE RequestedName]
    /\ pc' = "cfg_open"
    /\ UNCHANGED <<curEx, exitCode, runs, files, provisioner, conn, net, hist, pending>>
    /\ UNCHANGED cloud

\* registered_thing = thing_response["thingName"].
ReadThingName ==
    /\ pc = "read_thing"
    /\ IF HasThingName(run.thing_response)
       THEN /\ run' = [run EXCEPT !.registered_thing = ThingNameOf(run.thing_response)]
            /\ pc' = "cfg_open"
       ELSE /\ pc' = "except"
            /\ UNCHANGED run
    /\ UNCHANGED <<curEx, exitCode, runs, files, provisioner, conn, net, hist, pending>>
    /\ UNCHANGED cloud

\* open(config_path, "w"): the file exists, empty, with the default mode.
ConfigOpen ==
    /\ pc = "cfg_open"
    /\ configFile' = [content |-> "empty", mode |-> "default", thing_name |-> None]
    /\ run' = [run EXCEPT !.wrote = TRUE]
    /\ pc' = "cfg_dump"
    /\ UNCHANGED <<curEx, exitCode, runs, claimConfig, keyFile, certFile, provisioner,
                   conn, net, hist, pending>>
    /\ UNCHANGED cloud

\* Faulty variant: the config records the requested name.
ConfigDump_RequestedName ==
    /\ pc = "cfg_dump"
    /\ configFile' = [configFile EXCEPT !.content = "complete",
                                        !.thing_name = RequestedName]
    /\ pc' = "cfg_chmod"
    /\ UNCHANGED <<curEx, exitCode, runs, claimConfig, keyFile, certFile, provisioner,
                   conn, net, hist, run, pending>>
    /\ UNCHANGED cloud

\* json.dump(config, f, indent=2) and the close that ends the with block.
ConfigDump ==
    /\ pc = "cfg_dump"
    /\ configFile' = [configFile EXCEPT !.content = "complete",
                                        !.thing_name = run.registered_thing]
    /\ pc' = "cfg_chmod"
    /\ UNCHANGED <<curEx, exitCode, runs, claimConfig, keyFile, certFile, provisioner,
                   conn, net, hist, run, pending>>
    /\ UNCHANGED cloud

\* config_path.chmod(0o600).
ConfigChmod ==
    /\ pc = "cfg_chmod"
    /\ configFile' = [configFile EXCEPT !.mode = "0600"]
    /\ pc' = "finish"
    /\ UNCHANGED <<curEx, exitCode, runs, claimConfig, keyFile, certFile, provisioner,
                   conn, net, hist, run, pending>>
    /\ UNCHANGED cloud

\* "return True", then sys.exit(0).
Finish ==
    /\ pc = "finish"
    /\ ProcessEnd("0")
    /\ UNCHANGED <<runs, files, provisioner, net, hist, run>>
    /\ UNCHANGED cloud

\* The process is killed or the device loses power. A kill while json.dump is
\* writing leaves what reached the disk: nothing yet, or a part of the text.
Crash ==
    /\ pc # "idle"
    /\ ProcessEnd("killed")
    /\ IF pc = "cfg_dump"
       THEN \E c \in {"empty", "partial"} :
              configFile' = [configFile EXCEPT !.content = c]
       ELSE configFile' = configFile
    /\ UNCHANGED <<runs, claimConfig, keyFile, certFile, provisioner, net, hist, run>>
    /\ UNCHANGED cloud

\* ------------------------------------------- callbacks, on the loop thread
\* The loop thread of an exchange's client runs its callbacks while it runs.
Delivering(ex) == conn[ex].loop /\ conn[ex].sock = "open"

\* The main thread has connected and has not yet left its wait.
AwaitingResult == pc \in {"ex_sleep", "ex_subscribe", "ex_settle", "ex_publish", "ex_wait"}

\* _on_connect(rc): the broker's CONNACK. A refusal records an error and
\* releases the wait.
on_connect(ex, rc) ==
    /\ Delivering(ex)
    /\ conn[ex].connack = "pending"
    /\ IF rc = 0
       THEN /\ conn' = [conn EXCEPT ![ex].connack = "ok"]
            /\ UNCHANGED <<provisioner, hist>>
       ELSE /\ conn' = [conn EXCEPT ![ex].connack = "refused"]
            /\ error' = "Connection failed"
            /\ response_event' = TRUE
            /\ setBy' = [setBy EXCEPT !.error = ex, !.event = ex]
            /\ hist' = [hist EXCEPT !.connFailed = @ \/ AwaitingResult]
            /\ UNCHANGED response
    /\ UNCHANGED <<pc, curEx, exitCode, runs, files, net, run, pending>>
    /\ UNCHANGED cloud

\* What _on_message leaves in self.response and self.error for a message.
MessageResponse(topic, p, old) ==
    IF Decodable(p) /\ topic = ACCEPTED THEN p ELSE old

MessageError(topic, p, old) ==
    IF ~Decodable(p) THEN "parse error"
    ELSE IF topic = ACCEPTED THEN old
    ELSE IF IsDict(p) THEN ErrorMessageOf(p)
    ELSE "AttributeError"

\* _on_message: the head of the client's inbox is decoded and recorded, and
\* the event is set on every path.
on_message(ex) ==
    /\ Delivering(ex)
    /\ net[ex].inbox # <<>>
    /\ LET m == Head(net[ex].inbox)
           r == MessageResponse(m.topic, m.payload, response)
           e == MessageError(m.topic, m.payload, error)
       IN /\ response' = r
          /\ error' = e
          /\ response_event' = TRUE
          /\ setBy' = [response |-> IF Decodable(m.payload) /\ m.topic = ACCEPTED
                                    THEN ex ELSE setBy.response,
                       error |-> IF Decodable(m.payload) /\ m.topic = ACCEPTED
                                 THEN setBy.error ELSE ex,
                       event |-> ex]
          /\ hist' = [hist EXCEPT !.delivered = Append(@, [ex |-> ex, topic |-> m.topic, payload |-> m.payload])]
    /\ net' = [net EXCEPT ![ex].inbox = Tail(@)]
    /\ UNCHANGED <<pc, curEx, exitCode, runs, files, conn, run, pending>>
    /\ UNCHANGED cloud

\* _on_disconnect(rc != 0): the connection is lost; the callback only logs.
\* Messages still on their way are lost with the connection.
on_disconnect(ex) ==
    /\ Delivering(ex)
    /\ conn' = [conn EXCEPT ![ex].sock = "lost"]
    /\ net' = [net EXCEPT ![ex].inbox = <<>>, ![ex].out = <<>>]
    /\ hist' = [hist EXCEPT !.dropped = @ \/ (AwaitingResult /\ ~response_event)]
    /\ UNCHANGED <<pc, curEx, exitCode, runs, files, provisioner, run, pending>>
    /\ UNCHANGED cloud

\* ------------------------------------------------------------- the broker
\* The broker takes the client's packets in the order they were sent, once
\* it has accepted the connection.
BrokerReceive(ex) ==
    /\ conn[ex].sock = "open"
    /\ conn[ex].connack = "ok"
    /\ net[ex].out # <<>>
    /\ LET pkt == Head(net[ex].out)
       IN net' = [net EXCEPT ![ex].out = Tail(@),
                             ![ex].subs = IF pkt.type = "SUBSCRIBE"
                                          THEN @ \cup {pkt.topic} ELSE @,
                             ![ex].request = IF pkt.type = "PUBLISH"
                                             THEN pkt.request ELSE @]
    /\ UNCHANGED <<pc, curEx, exitCode, runs, files, provisioner, conn, hist, run, pending>>
    /\ UNCHANGED cloud

\* The broker answers a request it has received on one of the reply topics;
\* the message reaches the client only through a subscription to that topic.
BrokerReply(ex, topic, p) ==
    /\ conn[ex].sock = "open"
    /\ net[ex].request.kind # "none"
    /\ net[ex].replies < MaxReplies
    /\ IF topic \in net[ex].subs
       THEN /\ net' = [net EXCEPT ![ex].replies = @ + 1,
                                  ![ex].inbox = Append(@, Msg(topic, p))]
            /\ UNCHANGED hist
       ELSE /\ net' = [net EXCEPT ![ex].replies = @ + 1]
            /\ hist' = [hist EXCEPT !.unsubscribedReply = TRUE]
    /\ UNCHANGED <<pc, curEx, exitCode, runs, files, provisioner, conn, run, pending>>
    /\ UNCHANGED cloud

\* ------------------------------------------------------ the specification
\* A step of the main thread inside a run.
MainStep ==
    \/ CheckProvisioned
    \/ LoadClaimConfig
    \/ PrepareDirs
    \/ GenerateKey
    \/ ExInit
    \/ ExConnect
    \/ ExSleep
    \/ ExSubscribe
    \/ ExSettle
    \/ ExPublish
    \/ ExWaitSet
    \/ ExWaitTimeout
    \/ ExCheckError
    \/ ExReturn
    \/ ExLoopStop
    \/ ExDisconnect
    \/ SaveCertificate
    \/ ReadThingName
    \/ ConfigOpen
    \/ ConfigDump
    \/ ConfigChmod
    \/ Finish
    \/ MainExcept

LoopStep ==
    \E ex \in Exchanges :
        \/ \E rc \in {0, 5} : on_connect(ex, rc)
        \/ on_message(ex)
        \/ on_disconnect(ex)

BrokerStep ==
    \E ex \in Exchanges :
        \/ BrokerReceive(ex)
        \/ \E m \in Replies(ex) : BrokerReply(ex, m.topic, m.payload)

Next ==
    \/ StartRun
    \/ MainStep
    \/ LoopStep
    \/ BrokerStep
    \/ Crash

Spec == Init /\ [][Next]_vars

\* The main thread is scheduled: a run that can take a step takes one.
FairSpec == Spec /\ WF_vars(MainStep)

\* ------------------------------------------------------------ vocabulary
\* The main thread is inside an exchange method, from its first line to the
\* end of its finally block.
ExchangePcs == {"ex_init", "ex_connect", "ex_sleep", "ex_subscribe", "ex_settle",
                "ex_publish", "ex_wait", "ex_check", "ex_return", "loop_stop",
                "disconnect"}
InExchange(ex) == pc \in ExchangePcs /\ curEx = ex

\* The exchange recorded in hist has handed its result to provision_device.
Finished == hist.outcome # "none"

\* The states of the orchestrator's state machine, read off the run.
Phase ==
    IF runs = 0 THEN "NONE"
    ELSE IF exitCode = "killed" THEN "KILLED"
    ELSE IF exitCode = "1" \/ pc = "except" THEN "FAILED"
    ELSE IF run.shortCircuit THEN "PERSISTED"
    ELSE IF run.wrote /\ configFile.content = "complete" THEN "PERSISTED"
    ELSE IF run.registered_thing # None THEN "REGISTERED"
    ELSE IF run.ownership_token # None THEN "CERT_ISSUED"
    ELSE IF run.keyGenerated THEN "KEY_GENERATED"
    ELSE "START"

Rank(phase) ==
    CASE phase = "START" -> 0
      [] phase = "KEY_GENERATED" -> 1
      [] phase = "CERT_ISSUED" -> 2
      [] phase = "REGISTERED" -> 3
      [] phase = "PERSISTED" -> 4
      [] OTHER -> 5

\* ------------------------------------ the guard: handler, cleanup_thing
\* The device is not part of a behaviour of the guard or of the cleaner.
DeviceOff ==
    /\ pc = "idle"
    /\ curEx = NoEx
    /\ exitCode = "none"
    /\ runs = 0
    /\ claimConfig = "absent"
    /\ configFile = NoFile
    /\ keyFile = 0
    /\ certFile = None
    /\ response = None
    /\ error = None
    /\ response_event = FALSE
    /\ setBy = [response |-> Main, error |-> Main, event |-> Main]
    /\ conn = [ex \in Exchanges |-> NoClient]
    /\ net = [ex \in Exchanges |-> NoNet]
    /\ hist = NoHist
    /\ run = NoRun
    /\ pending = NoPending

\* The registries a guard invocation for RequestedName may find: the identity
\* absent, or present with any set of certificates attached, each active or
\* inactive, with zero, one or two policies, and attached or not to the
\* other identity as well.
GuardRegistries ==
    {NoRegistry} \cup
    {[things |-> Things,
      certs |-> [c \in Certs |-> IF c \in A THEN st[c] ELSE Absent],
      principals |-> [t \in Things |-> IF t = RequestedName THEN A ELSE sh],
      policies |-> [c \in Certs |-> IF c \in A THEN pol[c] ELSE {}],
      attempt |-> NoAttempt] :
        A \in SUBSET Certs, sh \in SUBSET Certs,
        st \in [Certs -> {ACTIVE, INACTIVE}],
        pol \in [Certs -> {{}, {"policy-1"}, Policies}]}

GuardInit ==
    /\ DeviceOff
    /\ registry \in {r \in GuardRegistries :
                        \A t \in Things : \A c \in r.principals[t] : r.certs[c] # Absent}
    /\ calls = <<>>
    /\ guard = NoGuard
    /\ cleaner = NoCleaner
    /\ provision = NoProvision

\* Faulty variant: only a missing ThingName is refused, an empty one is looked up.
HandlerEntry_EmptyAccepted(name) ==
    /\ guard.pc = "idle"
    /\ guard' = [guard EXCEPT !.thing_name = name,
                              !.entry = registry,
                              !.pc = IF name = None THEN "done" ELSE "describe_thing",
                              !.result = IF name = None THEN "deny" ELSE "none"]
    /\ UNCHANGED <<registry, calls, cleaner, device, provision>>

\* handler(event, context): "if not thing_name: return {'allowProvisioning': False}".
HandlerEntry(name) ==
    /\ guard.pc = "idle"
    /\ guard' = [guard EXCEPT !.thing_name = name,
                              !.entry = registry,
                              !.pc = IF name \in {None, ""} THEN "done" ELSE "describe_thing",
                              !.result = IF name \in {None, ""} THEN "deny" ELSE "none"]
    /\ UNCHANGED <<registry, calls, cleaner, device, provision>>

\* Faulty variant: a failed lookup is taken for an existing identity.
DescribeThing_CleanupOnError ==
    /\ guard.pc = "describe_thing"
    /\ \E res \in (IF guard.thing_name \in registry.things THEN {"ok"} ELSE {"not_found"})
                  \cup (IF MayFail THEN {"error"} ELSE {}) :
         /\ calls' = Append(calls, Call("describe_thing", guard.thing_name, None, None, res))
         /\ guard' = CASE res = "not_found" -> [guard EXCEPT !.pc = "done", !.result = "allow"]
                       [] OTHER -> [guard EXCEPT !.pc = "list_thing_principals"]
    /\ UNCHANGED <<registry, cleaner, device, provision>>

\* iot.describe_thing: the identity exists and cleanup_thing is called; or
\* ResourceNotFoundException and provisioning is allowed; or another
\* ClientError and provisioning is denied.
DescribeThing ==
    /\ guard.pc = "describe_thing"
    /\ \E res \in (IF guard.thing_name \in registry.things THEN {"ok"} ELSE {"not_found"})
                  \cup (IF MayFail THEN {"error"} ELSE {}) :
         /\ calls' = Append(calls, Call("describe_thing", guard.thing_name, None, None, res))
         /\ guard' = CASE res = "ok" -> [guard EXCEPT !.pc = "list_thing_principals"]
                       [] res = "not_found" -> [guard EXCEPT !.pc = "done", !.result = "allow"]
                       [] OTHER -> [guard EXCEPT !.pc = "done", !.result = "deny"]
    /\ UNCHANGED <<registry, cleaner, device, provision>>

\* Where cleanup_thing goes with the principals still to process.
ForPrincipals(g, rest) ==
    [g EXCEPT !.principals = rest, !.policies = <<>>,
              !.pc = IF rest = <<>> THEN "delete_thing" ELSE "detach_thing_principal"]

\* iot.list_thing_principals: on a ClientError "principals = []".
ListThingPrincipals ==
    /\ guard.pc = "list_thing_principals"
    /\ \E res \in Outcomes(TRUE) :
         /\ calls' = Append(calls, Call("list_thing_principals", guard.thing_name, None, None, res))
         /\ IF res = "ok"
            THEN \E q \in Orderings(registry.principals[guard.thing_name]) :
                    guard' = ForPrincipals(guard, q)
            ELSE guard' = ForPrincipals(guard, <<>>)
    /\ UNCHANGED <<registry, cleaner, device, provision>>

\* Faulty variant: the certificate is not detached from the identity.
DetachThingPrincipal_Skip ==
    /\ guard.pc = "detach_thing_principal"
    /\ guard' = [guard EXCEPT !.pc = "list_attached_policies"]
    /\ UNCHANGED <<registry, calls, cleaner, device, provision>>

\* First try block of the loop: iot.detach_thing_principal.
DetachThingPrincipal ==
    /\ guard.pc = "detach_thing_principal"
    /\ LET c == Head(guard.principals)
       IN \E res \in Outcomes(CanDetach(registry, guard.thing_name)) :
            /\ calls' = Append(calls, Call("detach_thing_principal", guard.thing_name, c, None, res))
            /\ registry' = IF res = "ok" THEN Detached(registry, guard.thing_name, c)
                           ELSE registry
    /\ guard' = [guard EXCEPT !.pc = "list_attached_policies"]
    /\ UNCHANGED <<cleaner, device, provision>>

\* Second try block: iot.list_attached_policies, then the loop over its result.
ListAttachedPolicies ==
    /\ guard.pc = "list_attached_policies"
    /\ LET c == Head(guard.principals)
       IN \E res \in Outcomes(TRUE) :
            /\ calls' = Append(calls, Call("list_attached_policies", None, c, None, res))
            /\ IF res = "ok"
               THEN \E q \in Orderings(registry.policies[c]) :
                       guard' = [guard EXCEPT !.policies = q,
                                              !.pc = IF q = <<>> THEN "update_certificate"
                                                     ELSE "detach_policy"]
               ELSE guard' = [guard EXCEPT !.pc = "update_certificate"]
    /\ UNCHANGED <<registry, cleaner, device, provision>>

\* iot.detach_policy inside the same try block: a ClientError leaves the loop.
DetachPolicy ==
    /\ guard.pc = "detach_policy"
    /\ LET c == Head(guard.principals)
           p == Head(guard.policies)
       IN \E res \in Outcomes(TRUE) :
            /\ calls' = Append(calls, Call("detach_policy", None, c, p, res))
            /\ registry' = IF res = "ok" THEN PolicyDetached(registry, p, c) ELSE registry
            /\ guard' = IF res = "ok" /\ Tail(guard.policies) # <<>>
                        THEN [guard EXCEPT !.policies = Tail(@)]
                        ELSE [guard EXCEPT !.policies = <<>>, !.pc = "update_certificate"]
    /\ UNCHANGED <<cleaner, device, provision>>

\* Faulty variant: the certificate is deactivated and never deleted.
UpdateCertificate_NoDelete ==
    /\ guard.pc = "update_certificate"
    /\ LET c == Head(guard.principals)
       IN \E res \in Outcomes(CanUpdateCertificate(registry, c)) :
            /\ calls' = Append(calls, Call("update_certificate", None, c, None, res))
            /\ registry' = IF res = "ok" THEN StatusSet(registry, c, INACTIVE) ELSE registry
            /\ guard' = ForPrincipals(guard, Tail(guard.principals))
    /\ UNCHANGED <<cleaner, device, provision>>

\* Third try block: iot.update_certificate(newStatus='INACTIVE'); a
\* ClientError skips the delete_certificate that follows it.
UpdateCertificate ==
    /\ guard.pc = "update_certificate"
    /\ LET c == Head(guard.principals)
       IN \E res \in Outcomes(CanUpdateCertificate(registry, c)) :
            /\ calls' = Append(calls, Call("update_certificate", None, c, None, res))
            /\ registry' = IF res = "ok" THEN StatusSet(registry, c, INACTIVE) ELSE registry
            /\ guard' = IF res = "ok" THEN [guard EXCEPT !.pc = "delete_certificate"]
                        ELSE ForPrincipals(guard, Tail(guard.principals))
    /\ UNCHANGED <<cleaner, device, provision>>

\* iot.delete_certificate(certificateId=cert_id), the end of the loop body.
DeleteCertificate ==
    /\ guard.pc = "delete_certificate"
    /\ LET c == Head(guard.principals)
       IN \E res \in Outcomes(CanDeleteCertificate(registry, c, FALSE)) :
            /\ calls' = Append(calls, Call("delete_certificate", None, c, None, res))
            /\ registry' = IF res = "ok" THEN CertificateDeleted(registry, c) ELSE registry
    /\ guard' = ForPrincipals(guard, Tail(guard.principals))
    /\ UNCHANGED <<cleaner, device, provision>>

\* Faulty variant: a failed deletion of the identity denies provisioning.
DeleteThing_DenyOnError ==
    /\ guard.pc = "delete_thing"
    /\ \E res \in Outcomes(CanDeleteThing(registry, guard.thing_name)) :
         /\ calls' = Append(calls, Call("delete_thing", guard.thing_name, None, None, res))
         /\ registry' = IF res = "ok" THEN ThingDeleted(registry, guard.thing_name)
                        ELSE registry
         /\ guard' = [guard EXCEPT !.pc = "done",
                                   !.result = IF res = "ok" THEN "allow" ELSE "deny"]
    /\ UNCHANGED <<cleaner, device, provision>>

\* iot.delete_thing, then handler returns {'allowProvisioning': True}.
DeleteThing ==
    /\ guard.pc = "delete_thing"
    /\ \E res \in Outcomes(CanDeleteThing(registry, guard.thing_name)) :
         /\ calls' = Append(calls, Call("delete_thing", guard.thing_name, None, None, res))
         /\ registry' = IF res = "ok" THEN ThingDeleted(registry, guard.thing_name)
                        ELSE registry
    /\ guard' = [guard EXCEPT !.pc = "done", !.result = "allow"]
    /\ UNCHANGED <<cleaner, device, provision>>

GuardNext ==
    \/ \E name \in {RequestedName, None, ""} : HandlerEntry(name)
    \/ DescribeThing
    \/ ListThingPrincipals
    \/ DetachThingPrincipal
    \/ ListAttachedPolicies
    \/ DetachPolicy
    \/ UpdateCertificate
    \/ DeleteCertificate
    \/ DeleteThing

\* One invocation of the guard against a registry.
GuardSpec == GuardInit /\ [][GuardNext]_vars

C1_WitnessFailure ==
    /\ pc = "idle"
    /\ exitCode = "1"
    /\ hist.ex = REG
    /\ hist.outcome = "raised"
    /\ configFile.content = "absent"

\* ------------------------------------------------------------------ C2
\* C2: a run that starts with a config present short-circuits: it opens no
\* connection, subscribes and publishes nothing, generates no key, and when
\* it exits it exits with code 0.
C2_ShortCircuit ==
    (runs > 0 /\ run.startedWith # "absent") =>
        /\ run.connects = 0
        /\ run.subscribes = 0
        /\ run.publishes = 0
        /\ ~run.keyGenerated
        /\ pc \in {"check_config", "idle"}
        /\ (pc = "idle" /\ exitCode # "killed") => (exitCode = "0" /\ run.shortCircuit)

\* The run after a successful run has ended, with code 0 and nothing published.
C2_Witness ==
    /\ runs = 2
    /\ run.startedWith = "complete"
    /\ pc = "idle"
    /\ exitCode = "0"
    /\ run.publishes = 0

\* ------------------------------------------------------------------ C3
\* C3: the config is persisted atomically: a run short-circuits as already
\* provisioned only when a complete, well-formed config is present, whatever
\* point of the write an earlier run was killed at.
C3_ShortCircuitOnlyOnCompleteConfig ==
    run.shortCircuit => run.startedWith = "complete"

\* ------------------------------------------------------------------ C4
\* C4: a run moves only forward through START, KEY_GENERATED, CERT_ISSUED,
\* REGISTERED, PERSISTED, or to FAILED. The certificate request is published
\* only after a key was generated in this run and carries its CSR; the
\* registration request is published only after the certificate exchange
\* returned an accepted payload and carries that payload's ownership token;
\* the config is written only after the registration exchange returned an
\* accepted payload; an exchange that raises ends the run in FAILED with no
\* later step.
C4_Inv ==
    /\ (hist.ex = CERT /\ hist.published) =>
          /\ run.keyGenerated
          /\ hist.request = [kind |-> "csr", csr |-> keyFile, token |-> None,
                             thingName |-> None]
    /\ hist.ex = REG =>
          /\ CERT \in run.returnedAccepted
          /\ HasCertFields(run.cert_response)
    /\ (hist.ex = REG /\ hist.published) =>
          /\ hist.request.kind = "register"
          /\ hist.request.token = OwnershipToken(run.cert_response)
    /\ run.wrote =>
          /\ REG \in run.returnedAccepted
          /\ hist.ex = REG
          /\ hist.outcome = "returned"
    /\ hist.outcome = "raised" =>
          /\ pc \in {"except", "idle"}
          /\ Phase \in {"FAILED", "KILLED"}
          /\ ~run.wrote
          /\ hist.ex = CERT => run.connects = 1

C4_Step ==
    runs' = runs =>
        \/ Phase' = Phase
        \/ Phase' = "KILLED"
        \/ Phase' = "FAILED" /\ Phase \notin {"PERSISTED", "KILLED"}
        \/ Rank(Phase) < 4 /\ Rank(Phase') = Rank(Phase) + 1
        \/ Phase = "START" /\ Phase' = "PERSISTED" /\ run'.shortCircuit

\* C4: the ordering above holds in every state and every step of a run moves
\* the state machine forward by one state, to FAILED, or not at all.
C4_ForwardOnly == [](C4_Inv) /\ [][C4_Step]_vars

\* A run went through every state to PERSISTED, with the second token.
C4_Witness ==
    /\ pc = "idle"
    /\ exitCode = "0"
    /\ ~run.shortCircuit
    /\ run.ownership_token = "tok-2"
    /\ Phase = "PERSISTED"

\* ------------------------------------------------------------------ C5
\* C5: correlation correctness. An exchange whose first reply came on the
\* rejected topic never returns normally; an exchange that returns normally
\* returns the decoded body of a message delivered on the accepted topic; and
\* an exchange whose only replies came, decodable, on the accepted topic is
\* not reported as an error of the registry.
C5_CorrelationCorrect ==
    /\ hist.outcome = "returned" =>
          /\ hist.delivered # <<>>
          /\ hist.delivered[1].topic = ACCEPTED
          /\ \E i \in 1..Len(hist.delivered) :
                /\ hist.delivered[i].topic = ACCEPTED
                /\ hist.delivered[i].payload = hist.retval
    /\ (/\ hist.outcome = "raised"
        /\ hist.delivered # <<>>
        /\ ~hist.connFailed
        /\ \A i \in 1..Len(hist.delivered) :
              /\ hist.delivered[i].topic = ACCEPTED
              /\ Decodable(hist.delivered[i].payload))
       => hist.raised \in {"TimeoutError", "ValueError"}

\* ------------------------------------------------------------------ C6
\* C6 as stated: an exchange that published its request and had no reply
\* delivered fails with a Timeout error.
C6_NoReplyMeansTimeout ==
    (Finished /\ hist.published /\ hist.delivered = <<>>) =>
        (hist.outcome = "raised" /\ hist.raised = "TimeoutError")

\* C6 as amended: an exchange that published its request, had no reply
\* delivered and no refusal of the connection reported, fails with a Timeout
\* error; and under every schedule of the callbacks an exchange the main
\* thread has entered is eventually left.
C6_TimeoutSafety ==
    (Finished /\ hist.published /\ hist.delivered = <<>> /\ ~hist.connFailed) =>
        (hist.outcome = "raised" /\ hist.raised = "TimeoutError")

\* C6 (amended): the Timeout property above, and termination of every exchange.
C6_TimeoutAndTermination ==
    /\ []C6_TimeoutSafety
    /\ \A ex \in Exchanges : InExchange(ex) ~> ~InExchange(ex)

\* An exchange with no reply and no refusal has ended in TimeoutError.
C6_Witness ==
    /\ pc = "except"
    /\ hist.published
    /\ hist.delivered = <<>>
    /\ ~hist.connFailed
    /\ hist.raised = "TimeoutError"

C8_ConnectionFailureIsTransportError ==
    (Finished /\ (hist.connFailed \/ (hist.dropped /\ hist.delivered = <<>>))) =>
        /\ hist.outcome = "raised"
        /\ hist.raised \notin {"TimeoutError", "denied", "", "str(payload)",
                               "AttributeError", "parse error"}

\* ------------------------------------------------------------------ C9
\* C9: whenever the main thread is not inside an exchange method, that
\* exchange's client has no running loop thread and no open connection: every
\* exit path after connect() stops the loop and disconnects before control
\* returns to provision_device.
C9_DisconnectedOnEveryExit ==
    \A ex \in Exchanges :
        ~InExchange(ex) =>
            /\ ~conn[ex].loop
            /\ conn[ex].sock \in {"none", "closed"}

\* Control is back in provision_device after a timeout; the client is closed.
C9_Witness ==
    /\ pc = "except"
    /\ hist.raised = "TimeoutError"
    /\ conn[hist.ex].sock = "closed"
    /\ ~conn[hist.ex].loop

\* ----------------------------------------------------------------- C10
\* C10: the exchanges of a run are isolated. Their loop threads never run at
\* the same time and only while the main thread is inside the exchange; after
\* register_thing has reset the fields, the response, the error and the event
\* it observes were written only by its own callbacks; every message recorded
\* for an exchange was delivered on that exchange's connection; and the value
\* register_thing returns is None or the body of an accepted message delivered
\* to it.
C10_ExchangesIsolated ==
    /\ \A ex \in Exchanges : conn[ex].loop => InExchange(ex)
    /\ ~(conn[CERT].loop /\ conn[REG].loop)
    /\ (InExchange(REG) /\ pc # "ex_init") =>
          /\ setBy.response \in {Main, REG}
          /\ setBy.error \in {Main, REG}
          /\ setBy.event \in {Main, REG}
          /\ response_event => setBy.event = REG
          /\ response # None => setBy.response = REG
          /\ error # None => setBy.error = REG
    /\ \A i \in 1..Len(hist.delivered) : hist.delivered[i].ex = hist.ex
    /\ (hist.ex = REG /\ hist.outcome = "returned") =>
          \/ hist.retval = None
          \/ REG \in run.returnedAccepted

\* register_thing returned the body of its own accepted reply, after the
\* certificate exchange had set the same fields.
C10_Witness ==
    /\ hist.ex = REG
    /\ hist.outcome = "returned"
    /\ hist.retval = THING_OTHER
    /\ run.cert_response = CERT_A
    /\ setBy.response = REG

\* ----------------------------------------------------------------- C11
\* C11: the identity name in the config written by a run is the name carried
\* by the accepted registration reply that register_thing returned, whether or
\* not it equals the requested name.
C11_PersistedNameIsReturnedName ==
    (run.wrote /\ configFile.content = "complete") =>
        /\ hist.ex = REG
        /\ hist.outcome = "returned"
        /\ HasThingName(hist.retval)
        /\ configFile.thing_name = ThingNameOf(hist.retval)
        /\ \E i \in 1..Len(hist.delivered) :
              hist.delivered[i] = [ex |-> REG, topic |-> ACCEPTED, payload |-> hist.retval]

\* A successful run whose registration returned a name other than the requested one.
C11_Witness ==
    /\ pc = "idle"
    /\ exitCode = "0"
    /\ run.wrote
    /\ hist.request.thingName = RequestedName
    /\ hist.retval = THING_OTHER
    /\ configFile.thing_name = "edge-ai-canonical"
    /\ configFile.thing_name # RequestedName

\* ----------------------------------------------------------------- C13
\* C13: once a run has ended with a complete config, no step of any later
\* invocation changes the config file, the private key or the certificate file.
C13_Step ==
    (configFile.content = "complete" /\ (pc = "idle" \/ ~run.wrote))
        => UNCHANGED <<configFile, keyFile, certFile>>

C13_ConfigImmutable == [][C13_Step]_vars

\* A second invocation has ended after a first one wrote the config, all files as they were.
C13_Witness ==
    /\ runs = 2
    /\ pc = "idle"
    /\ run.startedWith = "complete"
    /\ ~run.keyGenerated
    /\ configFile = [content |-> "complete", mode |-> "0600", thing_name |-> "edge-ai-ABC123"]
    /\ keyFile = 1
    /\ certFile = "cert-1"

\* ----------------------------------------------------------------- C14
\* C14: the CSR carried by a run's certificate request belongs to the key
\* generated in that run and was sent by no earlier run; no request is
\* published before the key is generated; and after a run wrote the config the
\* key on disk is the one whose CSR that run sent and the certificate on disk
\* is the one returned for it.
C14_FreshKeyPerAttempt ==
    /\ run.csr # 0 =>
          /\ run.keyGenerated
          /\ run.csr = keyFile
          /\ run.csr \notin run.earlierCsrs
    /\ run.publishes > 0 => run.keyGenerated /\ run.csr # 0
    /\ (run.wrote /\ configFile.content = "complete") =>
          /\ run.csr = keyFile
          /\ CERT \in run.returnedAccepted
          /\ certFile = CertId(run.cert_response)

\* A second attempt, after a failed one that sent its CSR, sent another CSR.
C14_Witness ==
    /\ runs = 2
    /\ run.earlierCsrs = {1}
    /\ run.csr = 2
    /\ keyFile = 2
    /\ hist.ex = CERT
    /\ hist.published

\* ----------------------------------------------------------------- C15
\* C15: a process that ended without being killed exited with 0 or 1; with 0
\* exactly when the config was already present or this run persisted it; and
\* with 1 when the claim config is missing or an exchange raised (rejection,
\* timeout, refused connection, or any other exception).
C15_ExitCode ==
    (pc = "idle" /\ runs > 0 /\ exitCode # "killed") =>
        /\ exitCode \in {"0", "1"}
        /\ exitCode = "0" <=>
              \/ run.shortCircuit
              \/ run.wrote /\ configFile.content = "complete" /\ configFile.mode = "0600"
        /\ (~run.shortCircuit /\ claimConfig = "absent") => exitCode = "1"
        /\ hist.outcome = "raised" => exitCode = "1"
        /\ (~run.shortCircuit /\ run.registered_thing = None) => exitCode = "1"

\* A run whose registration timed out has exited with code 1.
C15_Witness ==
    /\ pc = "idle"
    /\ exitCode = "1"
    /\ hist.ex = REG
    /\ hist.raised = "TimeoutError"
    /\ run.ownership_token = "tok-1"

\* ------------------------------------------------- the cleaner: cleanup.py
\* The member of a list: "x in q" on Python lists.
InSeq(x, q) == \E i \in 1..Len(q) : q[i] = x

\* A certificate as list_certificates returns it: its id and its status then.
CertEntry(r, c) == [certificateId |-> c, status |-> r.certs[c]]

\* The registries a cleaner pass may find: any identities, any certificates
\* active or inactive, any attachments between those that exist, and at most
\* one policy on a certificate.
CleanerRegistries ==
    {r \in [things : SUBSET Things,
            certs : [Certs -> {Absent, ACTIVE, INACTIVE}],
            principals : [Things -> SUBSET Certs],
            policies : [Certs -> {{}, {"policy-1"}}],
            attempt : {NoAttempt}] :
        /\ \A t \in Things : r.principals[t] # {} => t \in r.things
        /\ \A t \in Things : \A c \in r.principals[t] : r.certs[c] # Absent
        /\ \A c \in Certs : r.policies[c] # {} => r.certs[c] # Absent}

CleanerInit ==
    /\ DeviceOff
    /\ registry \in CleanerRegistries
    /\ calls = <<>>
    /\ guard = NoGuard
    /\ cleaner = NoCleaner
    /\ provision = NoProvision

\* An exception leaves main: the command ends where it is.
Raised(cl) == [cl EXCEPT !.pc = "done", !.outcome = "raised"]

\* main(region, dry_run, force): "cleaner = IoTCleaner(region=region)".
CleanerMain(dry_run, force) ==
    /\ cleaner.pc = "idle"
    /\ cleaner' = [cleaner EXCEPT !.pc = "list_things", !.dry_run = dry_run,
                                  !.force = force, !.entry = registry]
    /\ UNCHANGED <<registry, calls, guard, device, provision>>

\* find_orphaned_things: list_things(), the paginator over list_things.
ListThings ==
    /\ cleaner.pc = "list_things"
    /\ \E res \in Outcomes(TRUE) :
         /\ calls' = Append(calls, Call("list_things", None, None, None, res))
         /\ IF res = "ok"
            THEN \E q \in Orderings(registry.things) :
                    cleaner' = [cleaner EXCEPT !.things = q,
                                   !.pc = IF q = <<>> THEN "list_certificates"
                                          ELSE "get_thing_principals"]
            ELSE cleaner' = Raised(cleaner)
    /\ UNCHANGED <<registry, guard, device, provision>>

\* find_orphaned_things: get_thing_principals(thing["thingName"]) and
\* "if not principals: orphaned.append". ResourceNotFoundException gives [];
\* any other exception leaves main.
GetThingPrincipals ==
    /\ cleaner.pc = "get_thing_principals"
    /\ LET t == Head(cleaner.things)
           rest == Tail(cleaner.things)
           to == IF rest = <<>> THEN "list_certificates" ELSE "get_thing_principals"
       IN \E res \in (IF t \in registry.things THEN {"ok"} ELSE {"not_found"})
                     \cup (IF MayFail THEN {"error"} ELSE {}) :
            /\ calls' = Append(calls, Call("list_thing_principals", t, None, None, res))
            /\ cleaner' =
                 IF res = "error" THEN Raised(cleaner)
                 ELSE IF res = "not_found" \/ registry.principals[t] = {}
                 THEN [cleaner EXCEPT !.things = rest, !.pc = to,
                                      !.orphaned_things = Append(@, t)]
                 ELSE [cleaner EXCEPT !.things = rest, !.pc = to]
    /\ UNCHANGED <<registry, guard, device, provision>>

\* find_orphaned_certificates: list_certificates().
ListCertificates ==
    /\ cleaner.pc = "list_certificates"
    /\ \E res \in Outcomes(TRUE) :
         /\ calls' = Append(calls, Call("list_certificates", None, None, None, res))
         /\ IF res = "ok"
            THEN \E q \in Orderings({c \in Certs : registry.certs[c] # Absent}) :
                    cleaner' = [cleaner EXCEPT
                                   !.certs = [i \in 1..Len(q) |-> CertEntry(registry, q[i])],
                                   !.pc = IF q = <<>> THEN "find_inactive"
                                          ELSE "get_certificate_things"]
            ELSE cleaner' = Raised(cleaner)
    /\ UNCHANGED <<registry, guard, device, provision>>

\* find_orphaned_certificates: get_certificate_things(cert["certificateArn"])
\* and "if not things: orphaned.append(cert)"; "except Exception: return []".
GetCertificateThings ==
    /\ cleaner.pc = "get_certificate_things"
    /\ LET cert == Head(cleaner.certs)
           rest == Tail(cleaner.certs)
           to == IF rest = <<>> THEN "find_inactive" ELSE "get_certificate_things"
       IN \E res \in Outcomes(TRUE) :
            /\ calls' = Append(calls, Call("list_principal_things", None,
                                           cert.certificateId, None, res))
            /\ cleaner' =
                 IF res = "error" \/ AttachedThings(registry, cert.certificateId) = {}
                 THEN [cleaner EXCEPT !.certs = rest, !.pc = to,
                                      !.orphaned_certs = Append(@, cert)]
                 ELSE [cleaner EXCEPT !.certs = rest, !.pc = to]
    /\ UNCHANGED <<registry, guard, device, provision>>

\* The members of a list that satisfy a test, in the list's order.
RECURSIVE Inactive(_)
Inactive(q) ==
    IF q = <<>> THEN <<>>
    ELSE IF Head(q).status = INACTIVE THEN <<Head(q)>> \o Inactive(Tail(q))
    ELSE Inactive(Tail(q))

\* find_inactive_certificates: list_certificates() again, filtered by status.
FindInactive ==
    /\ cleaner.pc = "find_inactive"
    /\ \E res \in Outcomes(TRUE) :
         /\ calls' = Append(calls, Call("list_certificates", None, None, None, res))
         /\ IF res = "ok"
            THEN \E q \in Orderings({c \in Certs : registry.certs[c] # Absent}) :
                    cleaner' = [cleaner EXCEPT
                                   !.inactive_certs =
                                       Inactive([i \in 1..Len(q) |-> CertEntry(registry, q[i])]),
                                   !.pc = "report"]
            ELSE cleaner' = Raised(cleaner)
    /\ UNCHANGED <<registry, guard, device, provision>>

\* Where the deletion loops go: the next orphaned identity, then the
\* certificates of "orphaned_certs + inactive_certs".
ForThings(cl, rest) ==
    IF rest # <<>>
    THEN [cl EXCEPT !.things = rest, !.pc = "cleanup_thing"]
    ELSE [cl EXCEPT !.things = <<>>, !.pc = "for_cert",
                    !.certs = cl.orphaned_certs \o cl.inactive_certs]

\* Faulty variant: the deletion starts without the operator being asked.
Report_NoConfirm ==
    /\ cleaner.pc = "report"
    /\ cleaner' =
         IF cleaner.orphaned_things = <<>> /\ cleaner.orphaned_certs = <<>>
            /\ cleaner.inactive_certs = <<>>
         THEN [cleaner EXCEPT !.pc = "done", !.outcome = "no_findings"]
         ELSE LET cl == [cleaner EXCEPT !.reported =
                             [echoed |-> TRUE, things |-> cleaner.orphaned_things,
                              orphaned |-> cleaner.orphaned_certs,
                              inactive |-> cleaner.inactive_certs]]
              IN IF cleaner.dry_run THEN [cl EXCEPT !.pc = "done", !.outcome = "dry_run"]
                 ELSE ForThings(cl, cl.orphaned_things)
    /\ UNCHANGED <<registry, calls, guard, device, provision>>

\* Faulty variant: the preview option is not looked at.
Report_IgnoreDryRun ==
    /\ cleaner.pc = "report"
    /\ cleaner' =
         IF cleaner.orphaned_things = <<>> /\ cleaner.orphaned_certs = <<>>
            /\ cleaner.inactive_certs = <<>>
         THEN [cleaner EXCEPT !.pc = "done", !.outcome = "no_findings"]
         ELSE LET cl == [cleaner EXCEPT !.reported =
                             [echoed |-> TRUE, things |-> cleaner.orphaned_things,
                              orphaned |-> cleaner.orphaned_certs,
                              inactive |-> cleaner.inactive_certs]]
              IN IF ~cleaner.force THEN [cl EXCEPT !.pc = "confirm"]
                 ELSE ForThings(cl, cl.orphaned_things)
    /\ UNCHANGED <<registry, calls, guard, device, provision>>

\* "if not any([...]): return"; the three lists are echoed; "if dry_run: return".
Report ==
    /\ cleaner.pc = "report"
    /\ cleaner' =
         IF cleaner.orphaned_things = <<>> /\ cleaner.orphaned_certs = <<>>
            /\ cleaner.inactive_certs = <<>>
         THEN [cleaner EXCEPT !.pc = "done", !.outcome = "no_findings"]
         ELSE LET cl == [cleaner EXCEPT !.reported =
                             [echoed |-> TRUE, things |-> cleaner.orphaned_things,
                              orphaned |-> cleaner.orphaned_certs,
                              inactive |-> cleaner.inactive_certs]]
              IN IF cleaner.dry_run THEN [cl EXCEPT !.pc = "done", !.outcome = "dry_run"]
                 ELSE IF ~cleaner.force THEN [cl EXCEPT !.pc = "confirm"]
                 ELSE ForThings(cl, cl.orphaned_things)
    /\ UNCHANGED <<registry, calls, guard, device, provision>>

\* "if not click.confirm(...): click.echo('Aborted.'); return".
Confirm(answer) ==
    /\ cleaner.pc = "confirm"
    /\ cleaner' = IF answer THEN ForThings(cleaner, cleaner.orphaned_things)
                  ELSE [cleaner EXCEPT !.pc = "done", !.outcome = "aborted"]
    /\ UNCHANGED <<registry, calls, guard, device, provision>>

\* cleanup_thing(name): get_thing_principals(thing_name).
CleanupThingPrincipals ==
    /\ cleaner.pc = "cleanup_thing"
    /\ LET t == Head(cleaner.things)
       IN \E res \in (IF t \in registry.things THEN {"ok"} ELSE {"not_found"})
                     \cup (IF MayFail THEN {"error"} ELSE {}) :
            /\ calls' = Append(calls, Call("list_thing_principals", t, None, None, res))
            /\ CASE res = "error" -> cleaner' = Raised(cleaner)
                 [] res = "not_found" -> cleaner' = [cleaner EXCEPT !.principals = <<>>,
                                                                    !.pc = "ct_delete_thing"]
                 [] OTHER ->
                      \E q \in Orderings(registry.principals[t]) :
                          cleaner' = [cleaner EXCEPT !.principals = q,
                                         !.pc = IF q = <<>> THEN "ct_delete_thing"
                                                ELSE "ct_detach"]
    /\ UNCHANGED <<registry, guard, device, provision>>

\* cleanup_thing: detach_thing_principal for each principal; an exception leaves main.
CleanupThingDetach ==
    /\ cleaner.pc = "ct_detach"
    /\ LET t == Head(cleaner.things)
           c == Head(cleaner.principals)
           rest == Tail(cleaner.principals)
       IN \E res \in Outcomes(CanDetach(registry, t)) :
            /\ calls' = Append(calls, Call("detach_thing_principal", t, c, None, res))
            /\ registry' = IF res = "ok" THEN Detached(registry, t, c) ELSE registry
            /\ cleaner' = IF res = "error" THEN Raised(cleaner)
                          ELSE [cleaner EXCEPT !.principals = rest,
                                   !.pc = IF rest = <<>> THEN "ct_delete_thing" ELSE "ct_detach"]
    /\ UNCHANGED <<guard, device, provision>>

\* cleanup_thing: delete_thing(thingName=thing_name), then the next name.
CleanupThingDelete ==
    /\ cleaner.pc = "ct_delete_thing"
    /\ LET t == Head(cleaner.things)
       IN \E res \in Outcomes(CanDeleteThing(registry, t)) :
            /\ calls' = Append(calls, Call("delete_thing", t, None, None, res))
            /\ registry' = IF res = "ok" THEN ThingDeleted(registry, t) ELSE registry
            /\ cleaner' = IF res = "error" THEN Raised(cleaner)
                          ELSE ForThings(cleaner, Tail(cleaner.things))
    /\ UNCHANGED <<guard, device, provision>>

\* Faulty variant: every entry of "orphaned_certs + inactive_certs" is deleted.
ForCertificate_NoSkip ==
    /\ cleaner.pc = "for_cert"
    /\ cleaner' =
         IF cleaner.certs = <<>>
         THEN [cleaner EXCEPT !.pc = "done", !.outcome = "done"]
         ELSE [cleaner EXCEPT !.pc = "delete_certificate"]
    /\ UNCHANGED <<registry, calls, guard, device, provision>>

\* "for cert in orphaned_certs + inactive_certs: if cert not in orphaned_certs
\*  or cert not in inactive_certs:", and "Done!" after the last one.
ForCertificate ==
    /\ cleaner.pc = "for_cert"
    /\ cleaner' =
         IF cleaner.certs = <<>>
         THEN [cleaner EXCEPT !.pc = "done", !.outcome = "done"]
         ELSE IF \/ ~InSeq(Head(cleaner.certs), cleaner.orphaned_certs)
                 \/ ~InSeq(Head(cleaner.certs), cleaner.inactive_certs)
         THEN [cleaner EXCEPT !.pc = "delete_certificate"]
         ELSE [cleaner EXCEPT !.certs = Tail(@)]
    /\ UNCHANGED <<registry, calls, guard, device, provision>>

\* delete_certificate(cert_id, cert_arn): get_certificate_things(cert_arn).
DeleteCertificateThings ==
    /\ cleaner.pc = "delete_certificate"
    /\ LET c == Head(cleaner.certs).certificateId
       IN \E res \in Outcomes(TRUE) :
            /\ calls' = Append(calls, Call("list_principal_things", None, c, None, res))
            /\ IF res = "ok"
               THEN \E q \in Orderings(AttachedThings(registry, c)) :
                       cleaner' = [cleaner EXCEPT !.cert_things = q,
                                      !.pc = IF q = <<>> THEN "dc_list_policies"
                                             ELSE "dc_detach"]
               ELSE cleaner' = [cleaner EXCEPT !.cert_things = <<>>,
                                               !.pc = "dc_list_policies"]
    /\ UNCHANGED <<registry, guard, device, provision>>

\* delete_certificate: detach_thing_principal for each thing.
DeleteCertificateDetach ==
    /\ cleaner.pc = "dc_detach"
    /\ LET c == Head(cleaner.certs).certificateId
           t == Head(cleaner.cert_things)
           rest == Tail(cleaner.cert_things)
       IN \E res \in Outcomes(CanDetach(registry, t)) :
            /\ calls' = Append(calls, Call("detach_thing_principal", t, c, None, res))
            /\ registry' = IF res = "ok" THEN Detached(registry, t, c) ELSE registry
            /\ cleaner' = IF res = "error" THEN Raised(cleaner)
                          ELSE [cleaner EXCEPT !.cert_things = rest,
                                   !.pc = IF rest = <<>> THEN "dc_list_policies" ELSE "dc_detach"]
    /\ UNCHANGED <<guard, device, provision>>

\* delete_certificate: list_attached_policies(target=cert_arn).
DeleteCertificatePolicies ==
    /\ cleaner.pc = "dc_list_policies"
    /\ LET c == Head(cleaner.certs).certificateId
       IN \E res \in Outcomes(TRUE) :
            /\ calls' = Append(calls, Call("list_attached_policies", None, c, None, res))
            /\ IF res = "ok"
               THEN \E q \in Orderings(registry.policies[c]) :
                       cleaner' = [cleaner EXCEPT !.policies = q,
                                      !.pc = IF q = <<>> THEN "dc_update" ELSE "dc_detach_policy"]
               ELSE cleaner' = Raised(cleaner)
    /\ UNCHANGED <<registry, guard, device, provision>>

\* delete_certificate: detach_policy for each policy.
DeleteCertificateDetachPolicy ==
    /\ cleaner.pc = "dc_detach_policy"
    /\ LET c == Head(cleaner.certs).certificateId
           p == Head(cleaner.policies)
           rest == Tail(cleaner.policies)
       IN \E res \in Outcomes(TRUE) :
            /\ calls' = Append(calls, Call("detach_policy", None, c, p, res))
            /\ registry' = IF res = "ok" THEN PolicyDetached(registry, p, c) ELSE registry
            /\ cleaner' = IF res = "error" THEN Raised(cleaner)
                          ELSE [cleaner EXCEPT !.policies = rest,
                                   !.pc = IF rest = <<>> THEN "dc_update" ELSE "dc_detach_policy"]
    /\ UNCHANGED <<guard, device, provision>>

\* delete_certificate: update_certificate(newStatus="INACTIVE").
DeleteCertificateUpdate ==
    /\ cleaner.pc = "dc_update"
    /\ LET c == Head(cleaner.certs).certificateId
       IN \E res \in Outcomes(CanUpdateCertificate(registry, c)) :
            /\ calls' = Append(calls, Call("update_certificate", None, c, None, res))
            /\ registry' = IF res = "ok" THEN StatusSet(registry, c, INACTIVE) ELSE registry
            /\ cleaner' = IF res = "error" THEN Raised(cleaner)
                          ELSE [cleaner EXCEPT !.pc = "dc_delete"]
    /\ UNCHANGED <<guard, device, provision>>

\* delete_certificate: delete_certificate(forceDelete=True), then the next certificate.
DeleteCertificateDelete ==
    /\ cleaner.pc = "dc_delete"
    /\ LET c == Head(cleaner.certs).certificateId
       IN \E res \in Outcomes(CanDeleteCertificate(registry, c, TRUE)) :
            /\ calls' = Append(calls, Call("delete_certificate", None, c, None, res))
            /\ registry' = IF res = "ok" THEN CertificateDeleted(registry, c) ELSE registry
            /\ cleaner' = IF res = "error" THEN Raised(cleaner)
                          ELSE [cleaner EXCEPT !.certs = Tail(@), !.pc = "for_cert"]
    /\ UNCHANGED <<guard, device, provision>>

\* The registry's side of a device's provisioning attempt, which may run
\* while the cleaner does. The certificate request is accepted: a certificate
\* is created, active and attached to nothing (cert-1, the registries of
\* CleanerInit being the same under a renaming of the certificates).
IssueCertificate(c) ==
    /\ registry.attempt.state = "none"
    /\ cleaner.pc # "done"
    /\ registry.certs[c] = Absent
    /\ registry' = [registry EXCEPT !.certs[c] = ACTIVE,
                                    !.attempt = [state |-> "issued", cert |-> c, thing |-> None]]
    /\ UNCHANGED <<calls, guard, cleaner, device, provision>>

\* The registration request is accepted for an identity that is new or has
\* no certificate: the identity exists, the certificate is attached to it and
\* the device policy to the certificate.
RegisterThing(t) ==
    /\ registry.attempt.state = "issued"
    /\ cleaner.pc # "done"
    /\ registry.principals[t] = {}
    /\ registry.certs[registry.attempt.cert] # Absent
    /\ LET c == registry.attempt.cert
       IN registry' = [registry EXCEPT !.things = @ \cup {t},
                                       !.principals[t] = {c},
                                       !.policies[c] = {"policy-1"},
                                       !.attempt.state = "registered",
                                       !.attempt.thing = t]
    /\ UNCHANGED <<calls, guard, cleaner, device, provision>>

\* The registration request is rejected, or the device gave up waiting: the
\* registry keeps the certificate as it is.
RegistrationFails ==
    /\ registry.attempt.state = "issued"
    /\ cleaner.pc # "done"
    /\ registry' = [registry EXCEPT !.attempt.state = "failed"]
    /\ UNCHANGED <<calls, guard, cleaner, device, provision>>

CleanerNext ==
    \/ \E dry_run, force \in BOOLEAN : CleanerMain(dry_run, force)
    \/ ListThings
    \/ GetThingPrincipals
    \/ ListCertificates
    \/ GetCertificateThings
    \/ FindInactive
    \/ Report
    \/ \E answer \in BOOLEAN : Confirm(answer)
    \/ CleanupThingPrincipals
    \/ CleanupThingDetach
    \/ CleanupThingDelete
    \/ ForCertificate
    \/ DeleteCertificateThings
    \/ DeleteCertificateDetach
    \/ DeleteCertificatePolicies
    \/ DeleteCertificateDetachPolicy
    \/ DeleteCertificateUpdate
    \/ DeleteCertificateDelete
    \/ IssueCertificate("cert-1")
    \/ \E t \in Things : RegisterThing(t)
    \/ RegistrationFails

\* One pass of the cleaner over a registry.
CleanerSpec == CleanerInit /\ [][CleanerNext]_vars

\* ------------------------------------------------ vocabulary of the cloud
\* A call of the operation with these arguments was made, whatever its result.
Attempted(op, t, c, p) ==
    \E i \in 1..Len(calls) :
        /\ calls[i].op = op
        /\ calls[i].thing = t
        /\ calls[i].cert = c
        /\ calls[i].policy = p

\* The mutating calls made so far.
Mutations == {i \in 1..Len(calls) : calls[i].op \in MutatingOps}

\* The guard has returned after it found the identity (describe_thing succeeded).
GuardCleanedUp ==
    /\ guard.pc = "done"
    /\ calls # <<>>
    /\ calls[1].op = "describe_thing"
    /\ calls[1].result = "ok"

\* ----------------------------------------------------------------- C16
\* C16: when the existence check fails with an error other than not-found,
\* the guard has returned allowProvisioning = False, it made no other call
\* and the registry is as it was.
C16_LookupErrorDenies ==
    (calls # <<>> /\ calls[1].op = "describe_thing" /\ calls[1].result = "error") =>
        /\ guard.pc = "done"
        /\ guard.result = "deny"
        /\ Len(calls) = 1
        /\ Mutations = {}
        /\ registry = guard.entry

\* The lookup of an identity that exists with certificates attached failed, and the guard denied.
C16_Witness ==
    /\ guard.result = "deny"
    /\ guard.thing_name = RequestedName
    /\ calls[1].result = "error"
    /\ registry.principals[RequestedName] = Certs

\* ----------------------------------------------------------------- C17
\* C17: when the guard has cleaned up an identity that had certificates
\* attached and no registry call failed, the identity and each of those
\* certificates are deleted, none is attached to the identity and none has a
\* policy attached; and the guard allows provisioning.
C17_ReprovisionSafety ==
    (GuardCleanedUp /\ Failed(calls) = {} /\ guard.entry.principals[guard.thing_name] # {}) =>
        /\ guard.result = "allow"
        /\ guard.thing_name \notin registry.things
        /\ registry.principals[guard.thing_name] = {}
        /\ \A c \in guard.entry.principals[guard.thing_name] :
              /\ registry.certs[c] = Absent
              /\ registry.policies[c] = {}
              /\ AttachedThings(registry, c) = {}

\* Two certificates, each with two policies, one of them active, were cleaned up without a failure.
C17_Witness ==
    /\ GuardCleanedUp
    /\ Failed(calls) = {}
    /\ guard.entry.principals[RequestedName] = Certs
    /\ \A c \in Certs : guard.entry.policies[c] = Policies
    /\ guard.entry.certs["cert-1"] = ACTIVE
    /\ registry.things = Things \ {RequestedName}
    /\ \A c \in Certs : registry.certs[c] = Absent

\* ----------------------------------------------------------------- C18
\* C18: a guard that found the identity returns allowProvisioning = True
\* after delete_thing was attempted, whichever calls failed; a guard that
\* found no identity returns True after the lookup alone, the registry untouched.
C18_AllowRegardless ==
    /\ GuardCleanedUp =>
          /\ guard.result = "allow"
          /\ calls[Len(calls)].op = "delete_thing"
    /\ (calls # <<>> /\ calls[1].result = "not_found") =>
          /\ guard.pc = "done"
          /\ guard.result = "allow"
          /\ Len(calls) = 1
          /\ registry = guard.entry
    /\ guard.result = "deny" =>
          \/ guard.thing_name \in {None, ""}
          \/ calls[1].result = "error"

\* The guard allowed provisioning although two calls failed, the deletion of the identity among them.
C18_Witness ==
    /\ GuardCleanedUp
    /\ guard.result = "allow"
    /\ Cardinality(Failed(calls)) = 2
    /\ calls[Len(calls)].result = "error"
    /\ RequestedName \in registry.things

\* ----------------------------------------------------------------- C19
\* C19: when the guard has cleaned up and both kinds of list call succeeded,
\* then for every certificate that was attached the detach from the identity,
\* the detach of each of its policies, the deactivation and the deletion were
\* all attempted, and delete_thing was attempted, whatever failed.
C19_EveryStepAttempted ==
    (/\ GuardCleanedUp
     /\ \A i \in Failed(calls) :
           calls[i].op \notin {"list_thing_principals", "list_attached_policies"}) =>
        /\ \A c \in guard.entry.principals[guard.thing_name] :
              /\ Attempted("detach_thing_principal", guard.thing_name, c, None)
              /\ \A p \in guard.entry.policies[c] : Attempted("detach_policy", None, c, p)
              /\ Attempted("update_certificate", None, c, None)
              /\ Attempted("delete_certificate", None, c, None)
        /\ Attempted("delete_thing", guard.thing_name, None, None)

\* The ids of the certificates in a list of findings.
Ids(q) == {q[i].certificateId : i \in 1..Len(q)}
\* The members of a list of names.
Names(q) == {q[i] : i \in 1..Len(q)}

\* What a registry holds: identities without a certificate, certificates
\* attached to no identity, and inactive certificates.
OrphanedThings(r) == {t \in r.things : r.principals[t] = {}}
OrphanedCerts(r) == {c \in Certs : r.certs[c] # Absent /\ AttachedThings(r, c) = {}}
InactiveCerts(r) == {c \in Certs : r.certs[c] = INACTIVE}

\* ----------------------------------------------------------------- C12
\* C12: a certificate issued to an attempt whose registration failed stays in
\* the registry, active and attached to no identity; a cleaner pass started
\* afterwards reports it as orphaned; and when such a pass was not a preview,
\* was not declined, and has ended without a failed call on that certificate,
\* the certificate is deleted.
C12_OrphanReconciled ==
    cleaner.entry.attempt.state = "failed" =>
        LET c == cleaner.entry.attempt.cert
        IN /\ cleaner.entry.certs[c] = ACTIVE
           /\ AttachedThings(cleaner.entry, c) = {}
           /\ cleaner.reported.echoed => c \in Ids(cleaner.reported.orphaned)
           /\ (/\ cleaner.pc = "done"
               /\ cleaner.reported.echoed
               /\ ~cleaner.dry_run
               /\ cleaner.outcome # "aborted"
               /\ \A i \in Failed(calls) : calls[i].cert # c)
              => registry.certs[c] = Absent

\* ----------------------------------------------------------------- C20
\* C20: a pass with --dry-run makes no mutating call; without a provisioning
\* attempt beside it the registry stays as it was; what it echoes are the
\* three lists it found; and when no call failed these are, each once, the
\* identities without a certificate, the certificates attached to no
\* identity and the inactive certificates of the registry.
C20_PreviewMutatesNothing ==
    cleaner.dry_run =>
        /\ Mutations = {}
        /\ registry.attempt.state = "none" => registry = cleaner.entry
        /\ cleaner.outcome \in {"none", "dry_run", "no_findings", "raised"}
        /\ cleaner.outcome = "dry_run" =>
              cleaner.reported = [echoed |-> TRUE, things |-> cleaner.orphaned_things,
                                  orphaned |-> cleaner.orphaned_certs,
                                  inactive |-> cleaner.inactive_certs]
        /\ (/\ cleaner.outcome \in {"dry_run", "no_findings"}
            /\ Failed(calls) = {}
            /\ registry.attempt.state = "none") =>
              /\ Names(cleaner.orphaned_things) = OrphanedThings(registry)
              /\ Ids(cleaner.orphaned_certs) = OrphanedCerts(registry)
              /\ Ids(cleaner.inactive_certs) = InactiveCerts(registry)
              /\ Len(cleaner.orphaned_things) = Cardinality(OrphanedThings(registry))
              /\ Len(cleaner.orphaned_certs) = Cardinality(OrphanedCerts(registry))
              /\ Len(cleaner.inactive_certs) = Cardinality(InactiveCerts(registry))
              /\ cleaner.outcome = "no_findings" <=> ~cleaner.reported.echoed

\* A preview over two orphaned identities and one orphaned certificate has
\* ended: three findings echoed, the registry as it was.
C20_Witness ==
    /\ cleaner.dry_run
    /\ cleaner.outcome = "dry_run"
    /\ Failed(calls) = {}
    /\ OrphanedThings(cleaner.entry) = Things
    /\ OrphanedCerts(cleaner.entry) = {"cert-1"}
    /\ cleaner.entry.certs = [c \in Certs |-> IF c = "cert-1" THEN ACTIVE ELSE Absent]
    /\ Len(cleaner.reported.things) = 2
    /\ Len(cleaner.reported.orphaned) = 1
    /\ Len(cleaner.reported.inactive) = 0
    /\ registry = cleaner.entry

\* ----------------------------------------------------------------- C21
\* find_orphaned_things and find_orphaned_certificates have both returned:
\* the third scan was started.
FindersReturned ==
    \/ cleaner.pc = "find_inactive"
    \/ Cardinality({i \in 1..Len(calls) : calls[i].op = "list_certificates"}) = 2

\* C21: when both finders have returned over a registry that nothing else
\* changed meanwhile, the identities reported as orphaned are exactly those
\* with no certificate attached and the certificates reported as orphaned are
\* exactly those attached to no identity, also when a lookup failed.
C21_OrphanDetection ==
    (FindersReturned /\ registry.attempt = cleaner.entry.attempt) =>
        /\ Names(cleaner.orphaned_things) = OrphanedThings(cleaner.entry)
        /\ Ids(cleaner.orphaned_certs) = OrphanedCerts(cleaner.entry)


\* ----------------------------------------------------------------- C22
\* The call an action adds to the log, if it adds one.
CallMade == Len(calls') = Len(calls) + 1
LastCall == calls'[Len(calls')]

\* C22: in a pass beside which nothing else changes the registry, when
\* delete_certificate is called for a certificate, no policy is attached to
\* it, it is attached to no identity and it is inactive; and when
\* delete_thing is called for an identity, no certificate is attached to it.
C22_Step ==
    (CallMade /\ cleaner.pc # "idle" /\ registry.attempt = cleaner.entry.attempt) =>
        /\ LastCall.op = "delete_certificate" =>
              /\ registry.policies[LastCall.cert] = {}
              /\ AttachedThings(registry, LastCall.cert) = {}
              /\ registry.certs[LastCall.cert] = INACTIVE
        /\ LastCall.op = "delete_thing" =>
              registry.principals[LastCall.thing] = {}

C22_DeletionOrdering == [][C22_Step]_vars


\* ----------------------------------------------------------------- C23
\* A pass that was not a preview and was not declined went into its deletion
\* loops and has ended.
DeletionEnded ==
    /\ cleaner.pc = "done"
    /\ cleaner.reported.echoed
    /\ ~cleaner.dry_run
    /\ cleaner.outcome # "aborted"

\* C23: a pass that went into its deletion loops ends by finishing them (no
\* failure leaves main), and for every identity and certificate it reported
\* on which no call of its own failed, the delete call was attempted.
C23_BestEffort ==
    DeletionEnded =>
        /\ cleaner.outcome = "done"
        /\ \A t \in Names(cleaner.reported.things) :
              (\A i \in Failed(calls) : calls[i].thing # t) =>
                  Attempted("delete_thing", t, None, None)
        /\ \A c \in Ids(cleaner.reported.orphaned) \cup Ids(cleaner.reported.inactive) :
              (\A i \in Failed(calls) : calls[i].cert # c) =>
                  Attempted("delete_certificate", None, c, None)


\* ----------------------------------------------------------------- C24
\* C24: when a pass that was not a preview has finished its deletion loops
\* with no failed call, and nothing else changed the registry meanwhile,
\* every identity it reported as orphaned and every certificate it reported
\* as orphaned or as inactive is gone from the registry.
C24_Completeness ==
    (/\ DeletionEnded
     /\ cleaner.outcome = "done"
     /\ Failed(calls) = {}
     /\ registry.attempt = cleaner.entry.attempt) =>
        /\ \A t \in Names(cleaner.reported.things) : t \notin registry.things
        /\ \A c \in Ids(cleaner.reported.orphaned) : registry.certs[c] = Absent
        /\ \A c \in Ids(cleaner.reported.inactive) : registry.certs[c] = Absent


\* ----------------------------------------------------------------- C25
\* A provisioning attempt is in flight or has registered its identity beside
\* the pass; its certificate did not exist when the pass began unless the
\* attempt had issued it; and the pass did not find its identity orphaned.
UnrelatedAttempt ==
    /\ registry.attempt.state \in {"issued", "registered"}
    /\ cleaner.pc # "idle"
    /\ \/ cleaner.entry.attempt.state # "none"
       \/ cleaner.entry.certs[registry.attempt.cert] = Absent
    /\ registry.attempt.thing \notin
           OrphanedThings(cleaner.entry) \cup Names(cleaner.orphaned_things)

\* C25: beside such an attempt the pass makes no detach, update or delete
\* call on the attempt's certificate and no delete call on its identity, and
\* once the attempt has registered, its identity exists with exactly its new
\* certificate attached, and that certificate is active.
C25_UnrelatedAttemptSafe ==
    UnrelatedAttempt =>
        LET a == registry.attempt
        IN /\ \A i \in Mutations : calls[i].cert # a.cert
           /\ ~Attempted("delete_thing", a.thing, None, None)
           /\ a.state = "registered" =>
                 /\ a.thing \in registry.things
                 /\ registry.principals[a.thing] = {a.cert}
                 /\ registry.certs[a.cert] = ACTIVE


\* ----------------------------------------------------------------- C26
\* C26: whenever config.json exists, during a run, after it, or after a
\* crash, its mode is 0600 (owner read and write only).
C26_ConfigOwnerOnly ==
    configFile.content # "absent" => configFile.mode = "0600"


\* ------------------------------------ IoTProvisioner: src/iot/src/provision.py
\* provision may be called this many times in a row.
MaxProvisions == 2

\* The effect of each creating call that the registry accepts.
ThingCreated(r, t) == [r EXCEPT !.things = @ \cup {t}]
CertificateCreated(r, c) == [r EXCEPT !.certs[c] = ACTIVE, !.policies[c] = {}]
Attached(r, t, c) == [r EXCEPT !.principals[t] = @ \cup {c}]
PolicyAttached(r, p, c) == [r EXCEPT !.policies[c] = @ \cup {p}]

\* What the registry requires of an attach call: the identity and the
\* certificate exist.
CanAttach(r, t, c) == t \in r.things /\ r.certs[c] # Absent
CanAttachPolicy(r, c) == r.certs[c] # Absent

\* The registry at the beginning of the call in progress or last made.
ProvisionEntry == provision.entries[Len(provision.entries)]

\* The first call finds any registry a guard may find: RequestedName absent,
\* or present with zero, one or two certificates attached.
ProvisionInit ==
    /\ DeviceOff
    /\ registry \in {r \in GuardRegistries :
                        \A t \in Things : \A c \in r.principals[t] : r.certs[c] # Absent}
    /\ calls = <<>>
    /\ guard = NoGuard
    /\ cleaner = NoCleaner
    /\ provision = NoProvision

\* An exception leaves provision.
ProvisionRaised(pv) == [pv EXCEPT !.pc = "done", !.outcome = "raised"]

\* provision(thing_name, csr_pem): "self.cleanup_thing(thing_name)" begins.
Provision(thing_name) ==
    /\ provision.pc \in {"idle", "done"}
    /\ provision.count < MaxProvisions
    /\ provision' = [NoProvision EXCEPT !.pc = "list_thing_principals",
                                        !.thing_name = thing_name,
                                        !.count = provision.count + 1,
                                        !.entries = Append(provision.entries, registry),
                                        !.start = Len(calls)]
    /\ UNCHANGED <<registry, calls, guard, cleaner, device>>

\* Where cleanup_thing goes with the principals still to process.
ForPrincipalArns(pv, rest) ==
    [pv EXCEPT !.principals = rest, !.policies = <<>>,
               !.pc = IF rest = <<>> THEN "get_thing" ELSE "detach_thing_principal"]

\* cleanup_thing: get_thing_principals(thing_name); ResourceNotFoundException
\* gives [], any other error leaves provision.
ProvisionListThingPrincipals ==
    /\ provision.pc = "list_thing_principals"
    /\ LET t == provision.thing_name
       IN \E res \in (IF t \in registry.things THEN {"ok"} ELSE {"not_found"})
                     \cup (IF MayFail THEN {"error"} ELSE {}) :
            /\ calls' = Append(calls, Call("list_thing_principals", t, None, None, res))
            /\ CASE res = "error" -> provision' = ProvisionRaised(provision)
                 [] res = "not_found" -> provision' = ForPrincipalArns(provision, <<>>)
                 [] OTHER -> \E q \in Orderings(registry.principals[t]) :
                                provision' = ForPrincipalArns(provision, q)
    /\ UNCHANGED <<registry, guard, cleaner, device>>

\* Faulty variant: a failed detach is passed over, as the guard's is.
ProvisionDetachThingPrincipal_BestEffort ==
    /\ provision.pc = "detach_thing_principal"
    /\ LET t == provision.thing_name
           c == Head(provision.principals)
       IN \E res \in Outcomes(CanDetach(registry, t)) :
            /\ calls' = Append(calls, Call("detach_thing_principal", t, c, None, res))
            /\ registry' = IF res = "ok" THEN Detached(registry, t, c) ELSE registry
            /\ provision' = [provision EXCEPT !.pc = "list_attached_policies"]
    /\ UNCHANGED <<guard, cleaner, device>>

\* cleanup_thing: iot.detach_thing_principal(thingName, principal).
ProvisionDetachThingPrincipal ==
    /\ provision.pc = "detach_thing_principal"
    /\ LET t == provision.thing_name
           c == Head(provision.principals)
       IN \E res \in Outcomes(CanDetach(registry, t)) :
            /\ calls' = Append(calls, Call("detach_thing_principal", t, c, None, res))
            /\ registry' = IF res = "ok" THEN Detached(registry, t, c) ELSE registry
            /\ provision' = IF res = "error" THEN ProvisionRaised(provision)
                            ELSE [provision EXCEPT !.pc = "list_attached_policies"]
    /\ UNCHANGED <<guard, cleaner, device>>

\* Faulty variant: the policies of an old certificate are not looked up.
ProvisionListAttachedPolicies_Skip ==
    /\ provision.pc = "list_attached_policies"
    /\ provision' = [provision EXCEPT !.pc = "update_certificate"]
    /\ UNCHANGED <<registry, calls, guard, cleaner, device>>

\* cleanup_thing: iot.list_attached_policies(target=principal_arn).
ProvisionListAttachedPolicies ==
    /\ provision.pc = "list_attached_policies"
    /\ LET c == Head(provision.principals)
       IN \E res \in Outcomes(TRUE) :
            /\ calls' = Append(calls, Call("list_attached_policies", None, c, None, res))
            /\ IF res = "ok"
               THEN \E q \in Orderings(registry.policies[c]) :
                       provision' = [provision EXCEPT !.policies = q,
                                        !.pc = IF q = <<>> THEN "update_certificate"
                                               ELSE "detach_policy"]
               ELSE provision' = ProvisionRaised(provision)
    /\ UNCHANGED <<registry, guard, cleaner, device>>

\* cleanup_thing: iot.detach_policy for each policy of the list.
ProvisionDetachPolicy ==
    /\ provision.pc = "detach_policy"
    /\ LET c == Head(provision.principals)
           p == Head(provision.policies)
           rest == Tail(provision.policies)
       IN \E res \in Outcomes(TRUE) :
            /\ calls' = Append(calls, Call("detach_policy", None, c, p, res))
            /\ registry' = IF res = "ok" THEN PolicyDetached(registry, p, c) ELSE registry
            /\ provision' = IF res = "error" THEN ProvisionRaised(provision)
                            ELSE [provision EXCEPT !.policies = rest,
                                     !.pc = IF rest = <<>> THEN "update_certificate"
                                            ELSE "detach_policy"]
    /\ UNCHANGED <<guard, cleaner, device>>

\* Faulty variant: an old certificate is deactivated and never deleted.
ProvisionUpdateCertificate_NoDelete ==
    /\ provision.pc = "update_certificate"
    /\ LET c == Head(provision.principals)
       IN \E res \in Outcomes(CanUpdateCertificate(registry, c)) :
            /\ calls' = Append(calls, Call("update_certificate", None, c, None, res))
            /\ registry' = IF res = "ok" THEN StatusSet(registry, c, INACTIVE) ELSE registry
            /\ provision' = IF res = "error" THEN ProvisionRaised(provision)
                            ELSE ForPrincipalArns(provision, Tail(provision.principals))
    /\ UNCHANGED <<guard, cleaner, device>>

\* cleanup_thing: iot.update_certificate(newStatus="INACTIVE").
ProvisionUpdateCertificate ==
    /\ provision.pc = "update_certificate"
    /\ LET c == Head(provision.principals)
       IN \E res \in Outcomes(CanUpdateCertificate(registry, c)) :
            /\ calls' = Append(calls, Call("update_certificate", None, c, None, res))
            /\ registry' = IF res = "ok" THEN StatusSet(registry, c, INACTIVE) ELSE registry
            /\ provision' = IF res = "error" THEN ProvisionRaised(provision)
                            ELSE [provision EXCEPT !.pc = "delete_certificate"]
    /\ UNCHANGED <<guard, cleaner, device>>

\* cleanup_thing: iot.delete_certificate(forceDelete=True), the end of the
\* loop body.
ProvisionDeleteCertificate ==
    /\ provision.pc = "delete_certificate"
    /\ LET c == Head(provision.principals)
       IN \E res \in Outcomes(CanDeleteCertificate(registry, c, TRUE)) :
            /\ calls' = Append(calls, Call("delete_certificate", None, c, None, res))
            /\ registry' = IF res = "ok" THEN CertificateDeleted(registry, c) ELSE registry
            /\ provision' = IF res = "error" THEN ProvisionRaised(provision)
                            ELSE ForPrincipalArns(provision, Tail(provision.principals))
    /\ UNCHANGED <<guard, cleaner, device>>

\* cleanup_thing: "if self.get_thing(thing_name):", describe_thing where
\* ResourceNotFoundException gives None.
ProvisionGetThing ==
    /\ provision.pc = "get_thing"
    /\ LET t == provision.thing_name
       IN \E res \in (IF t \in registry.things THEN {"ok"} ELSE {"not_found"})
                     \cup (IF MayFail THEN {"error"} ELSE {}) :
            /\ calls' = Append(calls, Call("describe_thing", t, None, None, res))
            /\ provision' = CASE res = "ok" -> [provision EXCEPT !.pc = "delete_thing"]
                              [] res = "not_found" -> [provision EXCEPT !.pc = "ensure_thing_type"]
                              [] OTHER -> ProvisionRaised(provision)
    /\ UNCHANGED <<registry, guard, cleaner, device>>

\* cleanup_thing: iot.delete_thing(thingName=thing_name); cleanup_thing returns.
ProvisionDeleteThing ==
    /\ provision.pc = "delete_thing"
    /\ LET t == provision.thing_name
       IN \E res \in Outcomes(CanDeleteThing(registry, t)) :
            /\ calls' = Append(calls, Call("delete_thing", t, None, None, res))
            /\ registry' = IF res = "ok" THEN ThingDeleted(registry, t) ELSE registry
            /\ provision' = IF res = "error" THEN ProvisionRaised(provision)
                            ELSE [provision EXCEPT !.pc = "ensure_thing_type"]
    /\ UNCHANGED <<guard, cleaner, device>>

\* ensure_thing_type(): the thing type is found, or created when it is not;
\* it returns unless one of its calls fails.
EnsureThingType ==
    /\ provision.pc = "ensure_thing_type"
    /\ \E res \in Outcomes(TRUE) :
         /\ calls' = Append(calls, Call("describe_thing_type", None, None, None, res))
         /\ provision' = IF res = "error" THEN ProvisionRaised(provision)
                         ELSE [provision EXCEPT !.pc = "ensure_policy"]
    /\ UNCHANGED <<registry, guard, cleaner, device>>

\* ensure_policy(): the policy gets a new default version, or is created
\* when it does not exist; it returns unless one of its calls fails.
EnsurePolicy ==
    /\ provision.pc = "ensure_policy"
    /\ \E res \in Outcomes(TRUE) :
         /\ calls' = Append(calls, Call("get_policy", None, None, POLICY_NAME, res))
         /\ provision' = IF res = "error" THEN ProvisionRaised(provision)
                         ELSE [provision EXCEPT !.pc = "create_thing"]
    /\ UNCHANGED <<registry, guard, cleaner, device>>

\* iot.create_thing(thingName=thing_name, thingTypeName=THING_TYPE).
CreateThing ==
    /\ provision.pc = "create_thing"
    /\ LET t == provision.thing_name
       IN \E res \in Outcomes(TRUE) :
            /\ calls' = Append(calls, Call("create_thing", t, None, None, res))
            /\ registry' = IF res = "ok" THEN ThingCreated(registry, t) ELSE registry
            /\ provision' = IF res = "error" THEN ProvisionRaised(provision)
                            ELSE [provision EXCEPT !.pc = "create_certificate_from_csr"]
    /\ UNCHANGED <<guard, cleaner, device>>

\* iot.create_certificate_from_csr(setAsActive=True): the registry makes a
\* certificate under an id that no certificate has.
CreateCertificateFromCsr ==
    /\ provision.pc = "create_certificate_from_csr"
    /\ \E c \in {x \in Certs : registry.certs[x] = Absent} :
       \E res \in Outcomes(TRUE) :
            /\ calls' = Append(calls, Call("create_certificate_from_csr", None, c, None, res))
            /\ registry' = IF res = "ok" THEN CertificateCreated(registry, c) ELSE registry
            /\ provision' = IF res = "error" THEN ProvisionRaised(provision)
                            ELSE [provision EXCEPT !.cert = c,
                                                   !.pc = "attach_thing_principal"]
    /\ UNCHANGED <<guard, cleaner, device>>

\* iot.attach_thing_principal(thingName=thing_name, principal=cert_arn).
AttachThingPrincipal ==
    /\ provision.pc = "attach_thing_principal"
    /\ LET t == provision.thing_name
           c == provision.cert
       IN \E res \in Outcomes(CanAttach(registry, t, c)) :
            /\ calls' = Append(calls, Call("attach_thing_principal", t, c, None, res))
            /\ registry' = IF res = "ok" THEN Attached(registry, t, c) ELSE registry
            /\ provision' = IF res = "error" THEN ProvisionRaised(provision)
                            ELSE [provision EXCEPT !.pc = "attach_policy"]
    /\ UNCHANGED <<guard, cleaner, device>>

\* iot.attach_policy(policyName=policy_name, target=cert_arn).
AttachPolicy ==
    /\ provision.pc = "attach_policy"
    /\ LET c == provision.cert
       IN \E res \in Outcomes(CanAttachPolicy(registry, c)) :
            /\ calls' = Append(calls, Call("attach_policy", None, c, POLICY_NAME, res))
            /\ registry' = IF res = "ok" THEN PolicyAttached(registry, POLICY_NAME, c)
                           ELSE registry
            /\ provision' = IF res = "error" THEN ProvisionRaised(provision)
                            ELSE [provision EXCEPT !.pc = "describe_endpoint"]
    /\ UNCHANGED <<guard, cleaner, device>>

\* iot.describe_endpoint(endpointType="iot:Data-ATS"), then the result is returned.
DescribeEndpoint ==
    /\ provision.pc = "describe_endpoint"
    /\ \E res \in Outcomes(TRUE) :
         /\ calls' = Append(calls, Call("describe_endpoint", None, None, None, res))
         /\ provision' = IF res = "error" THEN ProvisionRaised(provision)
                         ELSE [provision EXCEPT !.pc = "done", !.outcome = "returned"]
    /\ UNCHANGED <<registry, guard, cleaner, device>>

ProvisionNext ==
    \/ Provision(RequestedName)
    \/ ProvisionListThingPrincipals
    \/ ProvisionDetachThingPrincipal
    \/ ProvisionListAttachedPolicies
    \/ ProvisionDetachPolicy
    \/ ProvisionUpdateCertificate
    \/ ProvisionDeleteCertificate
    \/ ProvisionGetThing
    \/ ProvisionDeleteThing
    \/ EnsureThingType
    \/ EnsurePolicy
    \/ CreateThing
    \/ CreateCertificateFromCsr
    \/ AttachThingPrincipal
    \/ AttachPolicy
    \/ DescribeEndpoint

\* Calls of provision for one identity name, one after the other.
ProvisionSpec == ProvisionInit /\ [][ProvisionNext]_vars


\* ----------------------------------------------------------------- C27
\* The call of provision in progress or last made has returned its result.
ProvisionReturned == provision.pc = "done" /\ provision.outcome = "returned"

\* The entries of the call log that this call of provision made.
CallsOfProvision == (provision.start + 1)..Len(calls)

\* C27: when a call of provision has returned, none of its registry calls
\* failed; the identity exists with exactly one certificate attached, the one
\* this call created, which is active, attached to nothing else and has the
\* device policy and no other; and every certificate that was attached at the
\* beginning was deleted by this call before the new one was created. This
\* holds for the first call and for every later one alike.
C27_ProvisionIdempotent ==
    ProvisionReturned =>
        LET t == provision.thing_name
            c == provision.cert
        IN /\ \A i \in CallsOfProvision : calls[i].result # "error"
           /\ t \in registry.things
           /\ registry.principals[t] = {c}
           /\ AttachedThings(registry, c) = {t}
           /\ registry.certs[c] = ACTIVE
           /\ registry.policies[c] = {POLICY_NAME}
           /\ \E i \in CallsOfProvision :
                 /\ calls[i] = Call("create_certificate_from_csr", None, c, None, "ok")
                 /\ \A old \in ProvisionEntry.principals[t] :
                       /\ \E j \in CallsOfProvision :
                             /\ j < i
                             /\ calls[j] = Call("delete_certificate", None, old, None, "ok")
                       /\ old # c => registry.certs[old] = Absent

\* Two calls in a row have returned: the first found the identity with two
\* certificates attached, each with two policies, the second found it as the
\* first had left it, with one.
C27_Witness ==
    /\ ProvisionReturned
    /\ provision.count = 2
    /\ Failed(calls) = {}
    /\ provision.entries[1].principals[RequestedName] = Certs
    /\ \A c \in Certs : provision.entries[1].policies[c] = Policies
    /\ Cardinality(provision.entries[2].principals[RequestedName]) = 1
    /\ provision.entries[2].things = Things
    /\ Cardinality(registry.principals[RequestedName]) = 1

\* ----------------------------------------------------------------- C28
\* C28: in provision, a certificate's policies are detached only after it was
\* detached from the identity, it is deactivated only after that and with no
\* policy left on it, and deleted only after that and when inactive;
\* delete_thing is called only for an identity that exists and has no
\* certificate attached; create_thing is called only when the identity is gone,
\* and it and create_certificate_from_csr only when every certificate the
\* identity had is deleted.
C28_Step ==
    (CallMade /\ provision.pc # "idle") =>
        LET t == provision.thing_name
            c == LastCall.cert
        IN /\ LastCall.op = "detach_policy" => c \notin registry.principals[t]
           /\ LastCall.op = "update_certificate" =>
                 /\ c \notin registry.principals[t]
                 /\ registry.policies[c] = {}
           /\ LastCall.op = "delete_certificate" =>
                 /\ c \notin registry.principals[t]
                 /\ registry.policies[c] = {}
                 /\ registry.certs[c] = INACTIVE
           /\ LastCall.op = "delete_thing" =>
                 /\ t \in registry.things
                 /\ registry.principals[t] = {}
           /\ LastCall.op = "create_thing" => t \notin registry.things
           /\ LastCall.op \in {"create_thing", "create_certificate_from_csr"} =>
                 /\ registry.principals[t] = {}
                 /\ \A old \in ProvisionEntry.principals[t] : registry.certs[old] = Absent

C28_CleanupOrdering == [][C28_Step]_vars

\* A first call that found two certificates attached, one of them active,
\* each with two policies, has cleaned up, created the identity anew and returned.
C28_Witness ==
    /\ ProvisionReturned
    /\ provision.count = 1
    /\ ProvisionEntry.principals[RequestedName] = Certs
    /\ ProvisionEntry.certs["cert-1"] = ACTIVE
    /\ \A c \in Certs : ProvisionEntry.policies[c] = Policies
    /\ Attempted("delete_thing", RequestedName, None, None)
    /\ RequestedName \in registry.things


\* ----------------------------------------------------------------- C29
\* The order of the guard's calls for one certificate: when detach_policy is
\* called the detach from the identity was attempted and the deactivation
\* was not; when update_certificate is called the detach was attempted; when
\* delete_certificate is called the deactivation was attempted and the
\* deletion was not; and delete_thing is called with no certificate left to
\* process.
GuardCallOrder ==
    LET t == guard.thing_name
        c == LastCall.cert
    IN /\ LastCall.op = "detach_policy" =>
             /\ Attempted("detach_thing_principal", t, c, None)
             /\ ~Attempted("update_certificate", None, c, None)
       /\ LastCall.op = "update_certificate" =>
             /\ Attempted("detach_thing_principal", t, c, None)
             /\ ~Attempted("delete_certificate", None, c, None)
       /\ LastCall.op = "delete_certificate" =>
             /\ Attempted("update_certificate", None, c, None)
             /\ ~Attempted("delete_certificate", None, c, None)
       /\ LastCall.op = "delete_thing" =>
             /\ guard.principals = <<>>
             /\ \A x \in guard.entry.principals[t] :
                   \/ Attempted("detach_thing_principal", t, x, None)
                   \/ Call("list_thing_principals", t, None, None, "error") = calls[2]

\* C29 as stated: the guard's calls are in that order, and delete_thing is
\* never called while a certificate is attached to the identity.
C29_StepNeverAttached ==
    (CallMade /\ guard.pc # "idle") =>
        /\ GuardCallOrder
        /\ LastCall.op = "delete_thing" => registry.principals[guard.thing_name] = {}

C29_GuardStepOrder == [][C29_StepNeverAttached]_vars

\* C29 as the code has it: the guard's calls are in that order, and a
\* certificate is still attached when delete_thing is called only if its
\* detach_thing_principal call failed or list_thing_principals failed.
C29_StepBestEffort ==
    (CallMade /\ guard.pc # "idle") =>
        /\ GuardCallOrder
        /\ LastCall.op = "delete_thing" =>
              \A x \in registry.principals[guard.thing_name] :
                 \/ \E i \in Failed(calls) :
                       calls[i] = Call("detach_thing_principal", guard.thing_name, x, None, "error")
                 \/ \E i \in Failed(calls) : calls[i].op = "list_thing_principals"

C29_GuardStepOrderBestEffort == [][C29_StepBestEffort]_vars

\* The guard went through two certificates, each with two policies, the
\* detach of one of them failed, and delete_thing was called with that
\* certificate still attached.
C29_Witness ==
    /\ GuardCleanedUp
    /\ guard.entry.principals[RequestedName] = Certs
    /\ \A c \in Certs : guard.entry.policies[c] = Policies
    /\ \E i \in Failed(calls) : calls[i].op = "detach_thing_principal"
    /\ Cardinality(registry.principals[RequestedName]) = 1
    /\ calls[Len(calls)] = Call("delete_thing", RequestedName, None, None, "error")


\* ----------------------------------------------------------------- C30
\* C30: the first reply delivered decides an exchange. When the first message
\* was a decodable one on the accepted topic and the wait did not time out,
\* the exchange returns normally, whatever was delivered after it; when the
\* first message came on the rejected topic, the exchange raises, whatever
\* was delivered after it.
C30_FirstReplyDecides ==
    (Finished /\ hist.delivered # <<>>) =>
        LET first == hist.delivered[1]
        IN /\ (/\ first.topic = ACCEPTED
               /\ Decodable(first.payload)
               /\ hist.raised # "TimeoutError") => hist.outcome = "returned"
           /\ first.topic = REJECTED => hist.outcome = "raised"


\* ----------------------------------------------------------------- C31
\* A message whose payload cannot be decoded was delivered in the exchange
\* in progress or last finished.
UndecodableDelivered ==
    \E i \in 1..Len(hist.delivered) : ~Decodable(hist.delivered[i].payload)

\* C31: while the main thread waits, an undecodable message that was
\* delivered has set the event, so the wait does not last until the deadline;
\* and an exchange whose first message was undecodable ends by raising an
\* error, not by returning.
C31_UndecodableFails ==
    /\ (pc = "ex_wait" /\ UndecodableDelivered) => response_event
    /\ (/\ Finished
        /\ hist.delivered # <<>>
        /\ ~Decodable(hist.delivered[1].payload)
        /\ hist.raised # "TimeoutError") =>
           /\ hist.outcome = "raised"
           /\ hist.raised \notin {"ValueError", "connect"}


\* ----------------------------------------------------------------- C32
\* The process was started with neither a provisioning config nor a claim
\* config on the device.
NoClaimRun ==
    /\ runs > 0
    /\ run.startedWith = "absent"
    /\ claimConfig = "absent"

\* C32: a run that finds neither a provisioning config nor a claim config ends
\* with exit code 1 (unless it is killed first) straight after the check of the
\* claim config: no key or CSR was generated, no file was written under the
\* device config directory, and no client was created or connected.
C32_NoClaimNoSideEffect ==
    NoClaimRun =>
        /\ pc \in {"idle", "check_config", "load_claim"}
        /\ (pc = "idle" /\ exitCode # "killed") => exitCode = "1"
        /\ ~run.keyGenerated /\ keyFile = 0
        /\ certFile = None
        /\ configFile = NoFile
        /\ ~run.wrote
        /\ run.connects = 0 /\ run.subscribes = 0 /\ run.publishes = 0
        /\ \A ex \in Exchanges : conn[ex] = NoClient /\ net[ex] = NoNet

\* A run without claim config has exited with code 1.
C32_Witness ==
    /\ NoClaimRun
    /\ pc = "idle"
    /\ exitCode = "1"
    /\ ~run.shortCircuit


\* ----------------------------------------------------------------- C33
\* The guard was invoked with no ThingName parameter, or with an empty one.
InvokedWithoutName == guard.pc # "idle" /\ guard.thing_name \in {None, ""}

\* C33: a guard invoked without a ThingName has returned allowProvisioning
\* False, has made no call to the registry, and has left the registry as it
\* found it.
C33_NoNameDenied ==
    InvokedWithoutName =>
        /\ guard.pc = "done"
        /\ guard.result = "deny"
        /\ calls = <<>>
        /\ registry = guard.entry

\* The guard was invoked with an empty ThingName while the requested identity
\* exists with a certificate attached.
C33_Witness ==
    /\ InvokedWithoutName
    /\ guard.thing_name = ""
    /\ guard.result = "deny"
    /\ RequestedName \in registry.things
    /\ registry.principals[RequestedName] # {}


\* ----------------------------------------------------------------- C34
\* The calls with which an invocation of the cleaner's delete_certificate for
\* a certificate began: its get_certificate_things, made after both listings
\* of the certificates (the scans look up the attachments between the two).
DeleteCertificateInvocations(c) ==
    {i \in 1..Len(calls) :
        /\ calls[i].op = "list_principal_things"
        /\ calls[i].cert = c
        /\ Cardinality({j \in 1..(i - 1) : calls[j].op = "list_certificates"}) = 2}

\* C34: in one pass the cleaner's delete_certificate is invoked at most once
\* for a certificate, and so is the registry's delete_certificate; it is not
\* invoked for a certificate the pass did not report.
C34_DeleteCertificateOnce ==
    \A c \in Certs :
        /\ Cardinality(DeleteCertificateInvocations(c)) <= 1
        /\ Cardinality({i \in 1..Len(calls) : calls[i].op = "delete_certificate"
                                               /\ calls[i].cert = c}) <= 1
        /\ DeleteCertificateInvocations(c) # {} =>
              c \in Ids(cleaner.reported.orphaned) \cup Ids(cleaner.reported.inactive)

\* A pass has ended that found one certificate both orphaned and inactive and
\* another one only orphaned, and invoked delete_certificate for the latter.
C34_Witness ==
    /\ cleaner.outcome = "done"
    /\ Ids(cleaner.reported.orphaned) = Certs
    /\ Ids(cleaner.reported.inactive) = {"cert-2"}
    /\ DeleteCertificateInvocations("cert-1") # {}
    /\ Attempted("delete_certificate", None, "cert-1", None)


\* ----------------------------------------------------------------- C35
\* Where main is before its deletion loops: scanning, reporting or asking.
BeforeDeletion ==
    {"idle", "list_things", "get_thing_principals", "list_certificates",
     "get_certificate_things", "find_inactive", "report", "confirm"}

\* C35, for one step: a mutating call is made only inside the deletion loops,
\* with the findings echoed; the deletion loops are entered only with the
\* findings echoed, from the confirmation or, under --force, from the report;
\* and a pass that ends with no findings or declined has made no mutating
\* call and, with no provisioning attempt beside it, left the registry as it
\* found it.
C35_Step ==
    /\ (CallMade /\ LastCall.op \in MutatingOps) =>
          /\ cleaner.pc \notin BeforeDeletion
          /\ cleaner.reported.echoed
          /\ ~cleaner.dry_run
    /\ (cleaner.pc \in BeforeDeletion /\ cleaner'.pc \notin BeforeDeletion \cup {"done"}) =>
          /\ cleaner'.reported.echoed
          /\ ~cleaner.dry_run
          /\ cleaner.pc \in {"report", "confirm"}
          /\ cleaner.pc = "report" => cleaner.force
          /\ cleaner.pc = "confirm" => ~cleaner.force
    /\ cleaner'.outcome \in {"no_findings", "aborted"} =>
          /\ Mutations' = {}
          /\ cleaner'.outcome = "no_findings" <=> ~cleaner'.reported.echoed
          /\ registry'.attempt.state = "none" => registry' = cleaner'.entry

\* C35: the cleaner mutates only after it reported its findings and the
\* operator confirmed or --force was given; with no findings or a declined
\* confirmation it makes zero mutating calls.
C35_ReportBeforeDelete == [][C35_Step]_vars

\* The operator declined after findings were echoed, on a registry with an
\* orphaned identity and an inactive certificate.
C35_Witness ==
    /\ cleaner.outcome = "aborted"
    /\ cleaner.reported.echoed
    /\ ~cleaner.force
    /\ cleaner.reported.things # <<>>
    /\ cleaner.reported.inactive # <<>>
    /\ Mutations = {}


\* ----------------------------------------------------------------- C36
\* C36: after a pass that was not a preview has finished its deletion loops
\* with no failed call, and nothing else changed the registry meanwhile, a scan
\* of the registry finds no identity without a certificate, no certificate
\* attached to no identity and no inactive certificate.
C36_Fixpoint ==
    (/\ DeletionEnded
     /\ cleaner.outcome = "done"
     /\ Failed(calls) = {}
     /\ registry.attempt = cleaner.entry.attempt) =>
        /\ OrphanedThings(registry) = {}
        /\ OrphanedCerts(registry) = {}
        /\ InactiveCerts(registry) = {}


\* ----------------------------------------------------------------- C37
\* The registry operations that cleanup_thing calls.
CleanupOps ==
    {"list_thing_principals", "detach_thing_principal", "list_attached_policies",
     "detach_policy", "update_certificate", "delete_certificate", "describe_thing",
     "delete_thing"}

\* The registry operations with which provision creates or attaches.
CreatingOps ==
    {"create_thing", "create_certificate_from_csr", "attach_thing_principal",
     "attach_policy"}

\* A call of cleanup_thing failed in the call of provision in progress or
\* last made (an identity that is not found is not a failure: there is
\* nothing to clean up).
CleanupFailed ==
    \E i \in CallsOfProvision : calls[i].op \in CleanupOps /\ calls[i].result = "error"

\* C37: when a step of cleanup_thing has failed, provision has raised at that
\* step, which is the last call it made; it made no creating or attaching
\* call; and the registry holds no identity, no certificate, no attachment
\* and no policy attachment that it did not hold when the call began.
C37_CleanupNotBestEffort ==
    (provision.pc # "idle" /\ CleanupFailed) =>
        /\ provision.pc = "done"
        /\ provision.outcome = "raised"
        /\ calls[Len(calls)].result = "error"
        /\ calls[Len(calls)].op \in CleanupOps
        /\ \A i \in CallsOfProvision : calls[i].op \notin CreatingOps
        /\ provision.cert = None
        /\ registry.things \subseteq ProvisionEntry.things
        /\ \A c \in Certs :
              /\ registry.certs[c] # Absent => ProvisionEntry.certs[c] # Absent
              /\ registry.policies[c] \subseteq ProvisionEntry.policies[c]
        /\ \A t \in Things : registry.principals[t] \subseteq ProvisionEntry.principals[t]

\* A first call found the identity with two certificates, got through the
\* first one and failed at the deletion of the second: it raised with the
\* identity still there.
C37_Witness ==
    /\ provision.pc = "done"
    /\ provision.outcome = "raised"
    /\ provision.count = 1
    /\ CleanupFailed
    /\ ProvisionEntry.principals[RequestedName] = Certs
    /\ calls[Len(calls)].op = "delete_certificate"
    /\ calls[Len(calls)].result = "error"
    /\ Cardinality({c \in Certs : registry.certs[c] = Absent}) = 1
    /\ RequestedName \in registry.things

====
